---- MODULE Spec2Model ----
(***************************************************************************)
(* A model of FigGen (menraromial/figgen): the type-inference front end    *)
(* (core/data_analyzer.py), the rendering dispatch of the two backends     *)
(* (viz/viz_engine.py) and the UI paths that reach it (components/*.py).   *)
(*                                                                         *)
(* Conventions                                                             *)
(*   - A pandas Series is a record: its label, its dtype, the distinct     *)
(*     non-null values in order of first appearance (what Series.unique()  *)
(*     returns after dropna), its null count, whether an unhashable value  *)
(*     (dict/list/set) sits among the first 10 non-null rows ("early"),    *)
(*     later ("late") or nowhere ("none"), and whether the tabular library *)
(*     raises an exception that _analyze_column does not catch locally.    *)
(*   - Column labels are strings; the labels of IntLabels stand for        *)
(*     integer labels (a JSON array of arrays loads with labels 0, 1, ..). *)
(*   - Scores are the source's floats times 100.                           *)
(*   - A Python str is a sequence of pieces (the parts of an f-string);    *)
(*     None is a distinct value.                                           *)
(***************************************************************************)
EXTENDS Integers, Naturals, Sequences, FiniteSets, TLC

VARIABLES
    pc,           \* which operation ran last
    series,       \* input of _detect_column_type
    detected,     \* its result
    columns,      \* input of _suggest_charts: list of column profiles
    suggestions,  \* its result
    df,           \* input of analyze: list of Series
    profile,      \* result of analyze
    table,        \* the DataFrame handed to the renderer
    config,       \* the ChartConfig of the most recent render call
    backend,      \* the backend of the most recent render call
    last_error,   \* VizEngine._last_error
    result,       \* what the most recent render call returned
    routine,      \* the chart-construction routine it dispatched to
    styled,       \* whether the shared post-processing completed
    wroteError,   \* whether the most recent call assigned _last_error a message
    open_figures, \* the number of figures pyplot holds open
    uiPath,       \* the UI path that ran last
    message,      \* what that path showed the user
    reached,      \* the backends whose chart construction it reached
    figure,       \* the scatter traces of the line or area figure built last
    script,       \* the statements of the script the code generator emitted
    cfg,          \* the ChartConfig tree being serialized
    doc,          \* the document written or handed in
    loaded,       \* what deserializing the document gave
    widgets,      \* st.session_state: the panel's widget values
    pending_config_load, \* st.session_state["pending_config_load"]
    session_config,      \* st.session_state.config
    loaded_config,       \* the config a load in the current run returned
    applyRaised,  \* whether applying the loaded config raised
    presets,      \* template_manager.PRESETS, a module-level dict of objects
    session_ref,  \* which object st.session_state.config refers to
    files,        \* the template directory: name -> file
    saved,        \* history: name -> the config last saved and not deleted
    lastOp,       \* the template_manager call that ran last
    ret,          \* what it returned
    writers,      \* per session: the progress of its save_template call
    annotations,  \* config.annotations of the most recent render call
    drawn,        \* the annotations that call added to the figure, in order
    ends,         \* the end x coordinate of each of them, where it has one
    frame,        \* st.session_state.df: the rows of the loaded table
    data_filters, \* st.session_state.data_filters
    filtered_df,  \* what render_data_filter returned in the current run
    session_profile, \* st.session_state.profile
    app_mode,     \* the mode whose panel received the table and the profile
    export_df,    \* whether render_export_panel was called, and with which table
    clicks,       \* the number of filter operations of the session so far
    loader_error, \* DataLoader._last_error of the loader in use
    load_ret,     \* what the most recent DataLoader.load returned
    uploader,     \* render_file_uploader's run: the file, the message, the result
    csv           \* the sample _load_csv read and the delimiter detected in it

----------------------------------------------------------------------------
(* Bounds *)

MaxCols == 3
MaxProfiles == 4
NRows == 4
MaxY == 2
MaxAnn == 1
MaxDrawn == 2
MaxFilters == 2
MaxRows == 2
MaxClicks == 4
MaxLoads == 2
MaxSample == 3

\* the largest number of rows left to the regression after cleaning
MaxValid == 3

----------------------------------------------------------------------------
(* Generic helpers *)

Range(s) == {s[i] : i \in 1..Len(s)}

Min(a, b) == IF a <= b THEN a ELSE b

Prefix(s, k) == SubSeq(s, 1, Min(k, Len(s)))

RECURSIVE SelectSeqBy(_, _)
\* list comprehension [c for c in s if c.column_type = t]
SelectSeqBy(s, t) ==
    IF s = <<>> THEN <<>>
    ELSE IF Head(s).column_type = t
         THEN <<Head(s)>> \o SelectSeqBy(Tail(s), t)
         ELSE SelectSeqBy(Tail(s), t)

----------------------------------------------------------------------------
(* core/models.py *)

ChartType ==
    {"line", "scatter", "bar", "histogram", "box", "violin", "heatmap",
     "area", "pie", "bubble", "funnel", "treemap", "sunburst", "radar",
     "parallel_coords", "candlestick", "waterfall", "polar", "contour",
     "density"}

IntLabels == {"0"}

\* pydantic validation of ColumnProfile.name: str (an int label is rejected)
ColumnProfileValid(name) == name \notin IntLabels

ColumnProfile(name, dtype, ctype, nulls, pct, uc, sample) ==
    [name |-> name, dtype |-> dtype, column_type |-> ctype,
     null_count |-> nulls, null_percentage |-> pct,
     unique_count |-> uc, sample_values |-> sample]

----------------------------------------------------------------------------
(* Values and Series *)

NumSeq == <<"0", "1", "2", "3", "4", "5", "6", "7", "8", "9", "10", "11",
            "12", "13", "14", "15", "16", "17", "18", "19", "20">>

WordSeq == <<"w0", "w1", "w2", "w3", "w4", "w5", "w6", "w7", "w8", "w9",
             "w10", "w11", "w12", "w13", "w14", "w15", "w16", "w17", "w18",
             "w19", "w20">>

DateSeq == <<"2024-01-01", "2024-01-02", "2024-01-03">>

NumericDtypes == {"int64", "float64", "bool"}
DatetimeDtypes == {"datetime64[ns]"}
StringDtypes == {"string"}

Series(name, dtype, uniq, nulls, nested, fault) ==
    [name |-> name, dtype |-> dtype, uniq |-> uniq, null_count |-> nulls,
     nested |-> nested, fault |-> fault]

WordValues ==
    {<<>>, <<"w0">>, <<"w0", "w1">>, <<"w0", "w1", "w2">>,
     Prefix(WordSeq, 20), WordSeq}

----------------------------------------------------------------------------
(* core/data_analyzer.py *)

CATEGORICAL_THRESHOLD == 20
BAR_MAX_UNIQUE == 15
TOP_SUGGESTIONS == 5

\* int(series.nunique()), 0 on TypeError (an unhashable value)
UniqueCount(s) == IF s.nested # "none" THEN 0 ELSE Len(s.uniq)

\* _is_datetime_column
IsDatetimeColumn(s) ==
    IF Len(s.uniq) = 0 THEN FALSE
    ELSE IF s.nested # "none" THEN FALSE
    \* every value is a str, and every value parses as a date
    ELSE IF ~(Range(s.uniq) \subseteq Range(WordSeq) \cup Range(DateSeq)) THEN FALSE
    ELSE Range(s.uniq) \subseteq Range(DateSeq)

\* the boolean test of _detect_column_type; set(...) raises TypeError on an
\* unhashable value and the except clause skips the test
BooleanTest(s) ==
    IF s.dtype = "bool" THEN TRUE
    ELSE IF s.nested # "none" THEN FALSE
    \* the members of the Python set {True, False, 0, 1}
    ELSE Range(s.uniq) \subseteq {"True", "False", "0", "1"}

\* a plausible slip: the numeric rule placed before the boolean rule
DetectColumnTypeNumericFirst(s, unique_count) ==
    IF s.dtype \in NumericDtypes THEN "numeric"
    ELSE IF BooleanTest(s) /\ unique_count <= 2 THEN "boolean"
    ELSE IF s.dtype \in DatetimeDtypes THEN "temporal"
    ELSE IF s.dtype = "object" /\ IsDatetimeColumn(s) THEN "temporal"
    ELSE IF s.dtype = "object" \/ s.dtype \in StringDtypes
         THEN IF unique_count <= CATEGORICAL_THRESHOLD THEN "categorical" ELSE "text"
    ELSE "unknown"

\* a plausible slip: low-cardinality numerics reclassified as categorical
DetectColumnTypeLowCard(s, unique_count) ==
    IF BooleanTest(s) /\ unique_count <= 2 THEN "boolean"
    ELSE IF s.dtype \in DatetimeDtypes THEN "temporal"
    ELSE IF s.dtype = "object" /\ IsDatetimeColumn(s) THEN "temporal"
    ELSE IF s.dtype \in NumericDtypes
         THEN IF unique_count > CATEGORICAL_THRESHOLD THEN "numeric" ELSE "categorical"
    ELSE IF s.dtype = "object" \/ s.dtype \in StringDtypes
         THEN IF unique_count <= CATEGORICAL_THRESHOLD THEN "categorical" ELSE "text"
    ELSE "unknown"

\* _detect_column_type
DetectColumnType(s, unique_count) ==
    IF BooleanTest(s) /\ unique_count <= 2 THEN "boolean"
    ELSE IF s.dtype \in DatetimeDtypes THEN "temporal"
    ELSE IF s.dtype = "object" /\ IsDatetimeColumn(s) THEN "temporal"
    ELSE IF s.dtype \in NumericDtypes
         THEN IF unique_count > CATEGORICAL_THRESHOLD THEN "numeric" ELSE "numeric"
    ELSE IF s.dtype = "object" \/ s.dtype \in StringDtypes
         THEN IF unique_count <= CATEGORICAL_THRESHOLD THEN "categorical" ELSE "text"
    ELSE "unknown"

NullPercentage(nulls) == IF NRows > 0 THEN (nulls * 100) \div NRows ELSE 0

\* _analyze_column: [raised |-> TRUE] when an exception leaves the method
AnalyzeColumn(s) ==
    LET \* _contains_complex_objects
        ContainsComplexObjects ==
            IF s.dtype # "object" THEN FALSE ELSE s.nested = "early"
    IN
    IF s.fault THEN [raised |-> TRUE]
    ELSE IF ContainsComplexObjects
    THEN IF ~ColumnProfileValid(s.name) THEN [raised |-> TRUE]
         ELSE [raised |-> FALSE,
               profile |-> ColumnProfile(s.name, s.dtype, "unknown", s.null_count,
                               NullPercentage(s.null_count), 0, Prefix(s.uniq, 3))]
    ELSE IF ~ColumnProfileValid(s.name) THEN [raised |-> TRUE]
    ELSE [raised |-> FALSE,
          profile |-> ColumnProfile(s.name, s.dtype,
                          DetectColumnType(s, UniqueCount(s)), s.null_count,
                          NullPercentage(s.null_count), UniqueCount(s),
                          Prefix(s.uniq, 5))]

ChartSuggestion(ctype, x, ys, color, score) ==
    [chart_type |-> ctype, x_column |-> x, y_columns |-> ys,
     color_column |-> color, score |-> score]

NoColumn == "<None>"

CORRELATION == "__correlation__"

RECURSIVE InsertByScore(_, _)
\* position of x in a list kept in non-increasing score order, after its equals
InsertByScore(x, s) ==
    IF s = <<>> THEN <<x>>
    ELSE IF Head(s).score >= x.score
         THEN <<Head(s)>> \o InsertByScore(x, Tail(s))
         ELSE <<x>> \o s

RECURSIVE SortByScore(_)
\* suggestions.sort(key=score, reverse=True): stable
SortByScore(s) ==
    IF s = <<>> THEN <<>>
    ELSE InsertByScore(s[Len(s)], SortByScore(SubSeq(s, 1, Len(s) - 1)))

\* the candidates of _suggest_charts in the order the code appends them
Candidates(cols) ==
    LET numeric_cols == SelectSeqBy(cols, "numeric")
        categorical_cols == SelectSeqBy(cols, "categorical")
        temporal_cols == SelectSeqBy(cols, "temporal")
        lines == IF temporal_cols # <<>> /\ numeric_cols # <<>>
                 THEN [i \in 1..Min(3, Len(numeric_cols)) |->
                          ChartSuggestion("line", temporal_cols[1].name,
                              <<numeric_cols[i].name>>, NoColumn, 95)]
                 ELSE <<>>
        scatter == IF Len(numeric_cols) >= 2
                   THEN <<ChartSuggestion("scatter", numeric_cols[1].name,
                              <<numeric_cols[2].name>>,
                              IF categorical_cols # <<>>
                              THEN categorical_cols[1].name ELSE NoColumn, 90)>>
                   ELSE <<>>
        bar == IF categorical_cols # <<>> /\ numeric_cols # <<>>
                  /\ categorical_cols[1].unique_count <= BAR_MAX_UNIQUE
               THEN <<ChartSuggestion("bar", categorical_cols[1].name,
                          <<numeric_cols[1].name>>, NoColumn, 85)>>
               ELSE <<>>
        hists == [i \in 1..Min(2, Len(numeric_cols)) |->
                     ChartSuggestion("histogram", numeric_cols[i].name,
                         <<>>, NoColumn, 70)]
        box == IF categorical_cols # <<>> /\ numeric_cols # <<>>
               THEN <<ChartSuggestion("box", categorical_cols[1].name,
                          <<numeric_cols[1].name>>, NoColumn, 75)>>
               ELSE <<>>
        heat == IF Len(numeric_cols) >= 3
                THEN <<ChartSuggestion("heatmap", CORRELATION,
                           [i \in 1..Len(numeric_cols) |-> numeric_cols[i].name],
                           NoColumn, 65)>>
                ELSE <<>>
    IN  lines \o scatter \o bar \o hists \o box \o heat

\* a plausible slip: the final sort left out
SuggestChartsUnsorted(cols) == Candidates(cols)

\* _suggest_charts
SuggestCharts(cols) == SortByScore(Candidates(cols))

RECURSIVE AnalyzeLoop(_)
\* the for loop of analyze: [raised, columns]
AnalyzeLoop(d) ==
    LET \* the except branch of analyze: the fallback profile, itself validated
        FallbackProfile(s) ==
            IF ~ColumnProfileValid(s.name) THEN [raised |-> TRUE]
            ELSE [raised |-> FALSE,
                  profile |-> ColumnProfile(s.name, s.dtype, "unknown", s.null_count,
                                  0, 0, <<>>)]
    IN
    IF d = <<>> THEN [raised |-> FALSE, columns |-> <<>>]
    ELSE LET r == AnalyzeColumn(Head(d))
             c == IF r.raised THEN FallbackProfile(Head(d)) ELSE r
             rest == AnalyzeLoop(Tail(d))
         IN  IF c.raised THEN [raised |-> TRUE, columns |-> <<>>]
             ELSE IF rest.raised THEN rest
             ELSE [raised |-> FALSE, columns |-> <<c.profile>> \o rest.columns]

NoResult == [kind |-> "none"]

\* DataAnalyzer.analyze
AnalyzeResult(d) ==
    LET loop == AnalyzeLoop(d)
    IN  IF loop.raised THEN [kind |-> "raised"]
        ELSE LET sugg == SuggestCharts(loop.columns)
             IN  [kind |-> "profile",
                  row_count |-> IF d = <<>> THEN 0 ELSE NRows,
                  column_count |-> Len(d),
                  columns |-> loop.columns,
                  suggested_charts |->
                      [i \in 1..Min(TOP_SUGGESTIONS, Len(sugg)) |-> sugg[i].chart_type]]

----------------------------------------------------------------------------
(* Python values *)

PyNone == [isNone |-> TRUE, text |-> <<>>]

PyStr(parts) == [isNone |-> FALSE, text |-> parts]

----------------------------------------------------------------------------
(* viz/viz_engine.py: the tables and configurations handed to the renderer *)

\* a table: its column labels in order, and those of numeric dtype in order
DemoTable == [labels |-> <<"a", "b", "c">>, numeric |-> <<"a", "b">>]

RenderTables == {DemoTable, [labels |-> <<>>, numeric |-> <<>>]}

ChartConfig(ct, x, ys, y2s, color, regression) ==
    [chart_type |-> ct, x_column |-> x, y_columns |-> ys, y2_columns |-> y2s,
     color_column |-> color, regression_enabled |-> regression]

DefaultConfig == ChartConfig("scatter", NoColumn, <<>>, <<>>, NoColumn, FALSE)

\* the configurations a caller can pass: any chart type, column references
\* present in the table or not ("zz"), the correlation sentinel
Configs ==
    {ChartConfig(ct, x, ys, y2s, color, regression) :
        ct \in ChartType,
        x \in {NoColumn, CORRELATION, "a", "zz"},
        ys \in UNION {[1..n -> {"a", "zz"}] : n \in 0..MaxY},
        y2s \in {<<>>, <<"b">>},
        color \in {NoColumn, "c"},
        regression \in BOOLEAN}

\* the if/elif chain of create_plotly_figure
PlotlyRoutine(ct) ==
    CASE ct = "line" -> "_create_line_chart"
      [] ct = "scatter" -> "_create_scatter_chart"
      [] ct = "bar" -> "_create_bar_chart"
      [] ct = "histogram" -> "_create_histogram"
      [] ct = "box" -> "_create_box_chart"
      [] ct = "violin" -> "_create_violin_chart"
      [] ct = "heatmap" -> "_create_heatmap"
      [] ct = "area" -> "_create_area_chart"
      [] ct = "pie" -> "_create_pie_chart"
      [] ct = "bubble" -> "_create_bubble_chart"
      [] ct = "funnel" -> "_create_funnel_chart"
      [] ct = "treemap" -> "_create_treemap"
      [] ct = "sunburst" -> "_create_sunburst"
      [] ct = "radar" -> "_create_radar_chart"
      [] ct = "parallel_coords" -> "_create_parallel_coords"
      [] ct = "candlestick" -> "_create_candlestick"
      [] ct = "waterfall" -> "_create_waterfall"
      [] ct = "polar" -> "_create_polar_chart"
      [] ct = "contour" -> "_create_contour"
      [] ct = "density" -> "_create_density"
      [] OTHER -> "unsupported"

\* the if/elif chain of create_matplotlib_figure
MplRoutine(ct) ==
    CASE ct = "line" -> "_mpl_line"
      [] ct = "scatter" -> "_mpl_scatter"
      [] ct = "bar" -> "_mpl_bar"
      [] ct = "histogram" -> "_mpl_histogram"
      [] ct = "box" -> "_mpl_box"
      [] ct = "heatmap" -> "_mpl_heatmap"
      [] OTHER -> "unsupported"

\* the body of the try block of create_plotly_figure
PlotlyBody(t, c, lib, msg) ==
    LET \* the column labels a plotly routine looks up in the table
        PlotlyRefs ==
            LET ct == c.chart_type
                XRef == IF c.x_column # NoColumn THEN {c.x_column} ELSE {}
                Y1Ref == IF c.y_columns # <<>> THEN {c.y_columns[1]} ELSE {}
                ColorRef == IF c.color_column # NoColumn THEN {c.color_column} ELSE {}
                ys == Range(c.y_columns)
                y2s == Range(c.y2_columns)
            IN  CASE ct = "line" ->
                        IF c.y2_columns # <<>> THEN XRef \cup ys \cup y2s
                        ELSE IF c.y_columns # <<>> THEN XRef \cup ys
                        ELSE XRef \cup ColorRef
                  [] ct = "area" ->
                        IF c.y2_columns # <<>> THEN XRef \cup ys \cup y2s
                        ELSE IF c.y_columns # <<>> THEN XRef \cup ys
                        ELSE {}
                  [] ct = "histogram" -> XRef \cup ColorRef
                  [] ct = "heatmap" ->
                        IF c.x_column = CORRELATION THEN ys
                        ELSE XRef \cup Y1Ref
                  [] ct \in {"pie", "waterfall", "density"} -> XRef \cup Y1Ref
                  [] ct = "radar" -> ys
                  [] ct = "parallel_coords" -> {}
                  [] ct = "candlestick" ->
                        IF Len(t.numeric) >= 4 THEN XRef
                        ELSE IF Len(c.y_columns) >= 4
                             THEN XRef \cup Range(SubSeq(c.y_columns, 1, 4))
                        ELSE XRef \cup Y1Ref
                  [] OTHER -> XRef \cup Y1Ref \cup ColorRef
        r == PlotlyRoutine(c.chart_type)
    IN  IF r = "unsupported"
        THEN [exc |-> FALSE, ret |-> "None", routine |-> r, styled |-> FALSE,
              error |-> PyStr(<<"Type de graphique non supporté: ", c.chart_type>>),
              detail |-> ""]
        ELSE IF \/ ~(PlotlyRefs \subseteq Range(t.labels))
                \* an IndexError inside the routine
                \/ /\ c.chart_type \in {"treemap", "sunburst"}
                   /\ c.x_column = NoColumn
                   /\ t.labels = <<>>
                \/ /\ c.chart_type = "candlestick"
                   /\ Len(t.numeric) < 4
                   /\ c.y_columns = <<>>
                   /\ t.numeric = <<>>
        THEN [exc |-> TRUE, ret |-> "None", routine |-> r, styled |-> FALSE,
              error |-> PyNone, detail |-> "KeyError"]
        ELSE IF lib = "dispatch"
        THEN [exc |-> TRUE, ret |-> "None", routine |-> r, styled |-> FALSE,
              error |-> PyNone, detail |-> msg]
        ELSE IF lib = "styling"
        THEN [exc |-> TRUE, ret |-> "None", routine |-> r, styled |-> FALSE,
              error |-> PyNone, detail |-> msg]
        ELSE IF c.regression_enabled /\ c.x_column # NoColumn /\ c.y_columns # <<>>
        THEN \* _apply_common_styling passes df, which is not one of its names
             [exc |-> TRUE, ret |-> "None", routine |-> r, styled |-> FALSE,
              error |-> PyNone, detail |-> "name 'df' is not defined"]
        ELSE [exc |-> FALSE, ret |-> "figure", routine |-> r, styled |-> TRUE,
              error |-> PyNone, detail |-> ""]

\* the body of the try block of create_matplotlib_figure
MplBody(t, c, lib, msg) ==
    LET \* the column labels a matplotlib routine looks up; df[None] is a lookup of
        \* a label no table has
        MplRefs ==
            LET ct == c.chart_type
                XRef == IF c.x_column # NoColumn THEN {c.x_column} ELSE {}
            IN  CASE ct = "line" -> XRef \cup Range(c.y_columns) \cup Range(c.y2_columns)
                  [] ct \in {"scatter", "bar"} ->
                        XRef \cup (IF c.y_columns # <<>> THEN {c.y_columns[1]} ELSE {NoColumn})
                  [] ct = "histogram" -> {c.x_column}
                  [] ct = "box" ->
                        IF c.x_column # NoColumn /\ c.y_columns # <<>>
                        THEN {c.x_column, c.y_columns[1]} ELSE {}
                  [] ct = "heatmap" ->
                        IF c.x_column = CORRELATION THEN Range(c.y_columns) ELSE {}
                  [] OTHER -> {}
        r == MplRoutine(c.chart_type)
    IN  IF lib = "setup"
        THEN [exc |-> TRUE, ret |-> "None", routine |-> "none", styled |-> FALSE,
              error |-> PyNone, detail |-> msg, open |-> 0]
        ELSE IF r = "unsupported"
        THEN [exc |-> FALSE, ret |-> "None", routine |-> r, styled |-> FALSE,
              error |-> PyStr(<<"Type non supporté pour Matplotlib: ", c.chart_type>>),
              detail |-> "", open |-> 1]
        ELSE IF ~(MplRefs \subseteq Range(t.labels))
        THEN [exc |-> TRUE, ret |-> "None", routine |-> r, styled |-> FALSE,
              error |-> PyNone, detail |-> "KeyError", open |-> 1]
        ELSE IF lib \in {"dispatch", "styling"}
        THEN [exc |-> TRUE, ret |-> "None", routine |-> r, styled |-> FALSE,
              error |-> PyNone, detail |-> msg, open |-> 1]
        ELSE [exc |-> FALSE, ret |-> "figure", routine |-> r, styled |-> TRUE,
              error |-> PyNone, detail |-> "", open |-> 1]

\* a plausible slip: _last_error is not cleared at the start of the call
CreateFigureNoClear(b, prev_error, t, c, lib, msg) ==
    LET body == IF b = "plotly" THEN PlotlyBody(t, c, lib, msg) ELSE MplBody(t, c, lib, msg)
    IN  IF body.exc
        THEN [result |-> "None", routine |-> body.routine, styled |-> body.styled,
              last_error |-> PyStr(<<IF b = "plotly" THEN "Erreur de création: "
                                     ELSE "Erreur Matplotlib: ",
                                     body.detail>>), wrote |-> TRUE,
              open |-> IF b = "plotly" THEN 0 ELSE body.open]
        ELSE [result |-> body.ret, routine |-> body.routine, styled |-> body.styled,
              last_error |-> IF body.error.isNone THEN prev_error ELSE body.error,
              wrote |-> ~body.error.isNone,
              open |-> IF b = "plotly" THEN 0 ELSE body.open]

\* create_plotly_figure / create_matplotlib_figure: clear _last_error, run
\* the body, convert an exception into a message and a None result
CreateFigure(b, prev_error, t, c, lib, msg) ==
    LET cleared == PyNone
        body == IF b = "plotly" THEN PlotlyBody(t, c, lib, msg) ELSE MplBody(t, c, lib, msg)
    IN  IF body.exc
        THEN [result |-> "None", routine |-> body.routine, styled |-> body.styled,
              last_error |-> PyStr(<<IF b = "plotly" THEN "Erreur de création: "
                                     ELSE "Erreur Matplotlib: ",
                                     body.detail>>), wrote |-> TRUE,
              open |-> IF b = "plotly" THEN 0 ELSE body.open]
        ELSE [result |-> body.ret, routine |-> body.routine, styled |-> body.styled,
              last_error |-> IF body.error.isNone THEN cleared ELSE body.error,
              wrote |-> ~body.error.isNone,
              open |-> IF b = "plotly" THEN 0 ELSE body.open]

----------------------------------------------------------------------------
(* viz/viz_engine.py: the traces of line and area charts *)

\* _create_line_chart / _create_area_chart: the traces in the order they are
\* added; a property the constructor is not given is "unset"
CreateSeriesChart(c) ==
    LET symbol_list == <<"circle", "square", "diamond", "triangle-up",
                         "triangle-down", "star", "cross", "x">>
        line == c.chart_type = "line"
        n == Len(c.y_columns)
        Trace(i, name, axis, dash) ==
            [name |-> name, axis |-> axis, type |-> "scatter",
             mode |-> IF line THEN "lines+markers" ELSE "lines",
             dash |-> dash,
             symbol |-> IF line THEN symbol_list[((i - 1) % Len(symbol_list)) + 1]
                        ELSE "unset"]
    IN  IF c.y2_columns # <<>>
        THEN [i \in 1..n |-> Trace(i, c.y_columns[i], "y", "unset")]
             \o [i \in 1..Len(c.y2_columns) |->
                    Trace(n + i, c.y2_columns[i], "y2", "dash")]
        ELSE IF line /\ c.y_columns = <<>>
        THEN \* px.line(df, x=config.x_column, y=None): one trace over the index
             <<[name |-> "index", axis |-> "y", type |-> "scatter", mode |-> "lines",
                dash |-> "unset", symbol |-> "unset"]>>
        ELSE [i \in 1..n |-> Trace(i, c.y_columns[i], "y", "unset")]

\* _apply_common_styling, the marker and line styles: update_traces on the
\* traces its selector matches
ApplyCommonStyling(traces, c) ==
    LET marker_symbol ==
            IF c.marker_style \in {"circle", "square", "diamond", "cross", "x",
                                   "triangle-up", "triangle-down", "star"}
            THEN c.marker_style ELSE "circle"
        line_dash ==
            IF c.line_style \in {"solid", "dash", "dot", "dashdot", "longdash",
                                 "longdashdot"}
            THEN c.line_style ELSE "solid"
        marked == IF Len(c.y_columns) <= 1
                  THEN [i \in 1..Len(traces) |->
                           IF traces[i].type = "scatter"
                           THEN [traces[i] EXCEPT !.symbol = marker_symbol]
                           ELSE traces[i]]
                  ELSE traces
    IN  [i \in 1..Len(marked) |->
            IF marked[i].type = "scatter" /\ marked[i].mode \in {"lines+markers", "lines"}
            THEN [marked[i] EXCEPT !.dash = line_dash]
            ELSE marked[i]]

\* _mpl_line: one plotted line per column, on ax or on its twin
MplLine(c) ==
    LET marker_list == <<"o", "s", "D", "^", "v", "*", "+", "x", "p", "h">>
        linestyle == CASE c.line_style = "solid" -> "-"
                       [] c.line_style = "dash" -> "--"
                       [] c.line_style = "dot" -> ":"
                       [] c.line_style = "dashdot" -> "-."
                       [] c.line_style = "longdash" -> "--"
                       [] c.line_style = "longdashdot" -> "-."
                       [] OTHER -> "-"
        n == Len(c.y_columns)
        Line(i, name, axis, dash) ==
            [name |-> name, axis |-> axis, type |-> "line2d", mode |-> "lines+markers",
             dash |-> dash,
             symbol |-> marker_list[((i - 1) % Len(marker_list)) + 1]]
    IN  [i \in 1..n |-> Line(i, c.y_columns[i], "y", linestyle)]
        \o [i \in 1..Len(c.y2_columns) |-> Line(n + i, c.y2_columns[i], "y2", "--")]

\* _add_regression_line: the traces of the figure it returns; `valid` rows
\* are left after cleaning, `fit` is what numpy does with them
AddRegressionLine(t, traces, c, valid, fit) ==
    IF ~({c.x_column} \subseteq Range(t.labels))
    THEN traces   \* KeyError, swallowed
    ELSE IF c.y_columns = <<>>
    THEN traces
    ELSE IF ~({c.y_columns[1]} \subseteq Range(t.labels))
    THEN traces   \* KeyError, swallowed
    ELSE IF valid < 2
    THEN traces
    ELSE IF fit = "raise"
    THEN traces   \* swallowed
    ELSE Append(traces,
                [name |-> "Tendance", axis |-> "y", type |-> "scatter", mode |-> "lines",
                 dash |-> "dash", symbol |-> "unset"])

----------------------------------------------------------------------------
(* codegen/code_generator.py: the script templates *)

\* _get_plotly_template rendered for a configuration: the statements of the
\* script in order
PlotlyTemplate(c, include_imports) ==
    LET ct == c.chart_type
        \* one statement of an emitted script: the name it assigns, if any,
        \* and the call it makes
        Stmt(assigns, call) == [assigns |-> assigns, call |-> call]
        traces == [i \in 1..Len(c.y_columns) |-> Stmt("none", "fig.add_trace")]
        branch ==
            IF ct = "line" THEN <<Stmt("fig", "go.Figure")>> \o traces
            ELSE IF ct = "scatter"
            THEN <<Stmt("fig", "px.scatter"), Stmt("none", "fig.update_traces")>>
            ELSE IF ct = "bar" THEN <<Stmt("fig", "px.bar")>>
            ELSE IF ct = "histogram" THEN <<Stmt("fig", "px.histogram")>>
            ELSE IF ct = "box" THEN <<Stmt("fig", "px.box")>>
            ELSE IF ct = "violin" THEN <<Stmt("fig", "px.violin")>>
            ELSE IF ct = "heatmap"
            THEN <<Stmt("none", "import numpy")>>
                 \o (IF c.x_column = CORRELATION
                     THEN <<Stmt("numeric_cols", "list"), Stmt("corr_matrix", "df.corr"),
                            Stmt("fig", "px.imshow"), Stmt("none", "fig.update_traces")>>
                     ELSE <<Stmt("fig", "px.density_heatmap")>>)
            ELSE IF ct = "area" THEN <<Stmt("fig", "go.Figure")>> \o traces
            ELSE IF ct = "pie" THEN <<Stmt("fig", "px.pie")>>
            ELSE IF ct = "bubble" THEN <<Stmt("fig", "px.scatter")>>
            ELSE <<>>
    IN  (IF include_imports THEN <<Stmt("none", "import")>> ELSE <<>>)
        \o <<Stmt("df", "pd.read_csv")>>
        \o branch
        \o <<Stmt("none", "fig.update_layout"), Stmt("none", "fig.show")>>

\* _get_matplotlib_template rendered for a configuration
MatplotlibTemplate(c, include_imports) ==
    LET ct == c.chart_type
        \* one statement of an emitted script: the name it assigns, if any,
        \* and the call it makes
        Stmt(assigns, call) == [assigns |-> assigns, call |-> call]
        branch ==
            IF ct = "line"
            THEN [i \in 1..Len(c.y_columns) |-> Stmt("none", "ax.plot")]
                 \o <<Stmt("none", "ax.legend")>>
            ELSE IF ct = "scatter" THEN <<Stmt("none", "ax.scatter")>>
            ELSE IF ct = "bar" THEN <<Stmt("none", "ax.bar"), Stmt("none", "plt.xticks")>>
            ELSE IF ct = "histogram" THEN <<Stmt("none", "ax.hist")>>
            ELSE IF ct = "box"
            THEN <<Stmt("none", "df.boxplot"), Stmt("none", "plt.suptitle"),
                   Stmt("none", "plt.xticks")>>
            ELSE IF ct = "heatmap"
            THEN <<Stmt("none", "# Heatmap")>>
                 \o (IF c.x_column = CORRELATION
                     THEN <<Stmt("numeric_cols", "list"), Stmt("corr_matrix", "df.corr"),
                            Stmt("none", "sns.heatmap")>>
                     ELSE <<>>)
            ELSE <<>>
    IN  (IF include_imports THEN <<Stmt("none", "import")>> ELSE <<>>)
        \o <<Stmt("df", "pd.read_csv"), Stmt("fig, ax", "plt.subplots")>>
        \o branch
        \o <<Stmt("none", "ax.set_title"), Stmt("none", "ax.grid"),
             Stmt("none", "plt.tight_layout"), Stmt("none", "plt.show")>>

----------------------------------------------------------------------------
(* Inputs of the analyzer specifications *)

LabelPool == <<"a", "b", "c", "d", "e", "0">>

----------------------------------------------------------------------------
(* components: the UI paths that reach the renderer *)

----------------------------------------------------------------------------
(* core/models.py: serialization of the ChartConfig tree *)

AnnotationType == {"text", "arrow", "line", "rect", "vline", "hline"}

ArrowHeadStyle == {"triangle", "open", "none", "circle", "square", "diamond"}

\* AnnotationConfig: an enum-valued type and head style, an Optional float
AnnotationConfig(type, style, x_end) ==
    [type |-> type, arrow_head_style |-> style, x_end |-> x_end]

RegressionConfig(enabled, type) == [enabled |-> enabled, type |-> type]

\* the ChartConfig tree as the serializers see it: an enum, an Optional
\* string, a string, a nested model and a list of nested models
ConfigTree(ct, x, title, reg, anns) ==
    [chart_type |-> ct, x_column |-> x, title |-> title, regression |-> reg,
     annotations |-> anns]

\* the declared defaults
DefaultAnnotation == AnnotationConfig("text", "triangle", NoColumn)

DefaultRegression == RegressionConfig(FALSE, "linear")

DefaultTree == ConfigTree("scatter", NoColumn, "Figure", DefaultRegression, <<>>)

\* the nodes of a parsed document; a scalar carries its tag
Scalar(kind, v) == [kind |-> kind, val |-> v]

MapNode(f) == [kind |-> "map", items |-> f]

\* an enum member as a dumper writes it: json.dumps writes a member of a
\* str-mixin Enum as the string it is; yaml.dump (the full Dumper) has no
\* representer for an Enum subclass and falls back to represent_object, a
\* python/object/apply node
EnumNode(dumper, v) ==
    IF dumper = "json" THEN Scalar("str", v) ELSE Scalar("python/object/apply", v)

\* model_dump() walked by json.dumps or yaml.dump
Dump(c, dumper) ==
    MapNode(
      [k \in {"chart_type", "x_column", "title", "regression", "annotations"} |->
        CASE k = "chart_type" -> EnumNode(dumper, c.chart_type)
          [] k = "x_column" ->
                IF c.x_column = NoColumn THEN Scalar("null", "") ELSE Scalar("str", c.x_column)
          [] k = "title" -> Scalar("str", c.title)
          [] k = "regression" ->
                MapNode([j \in {"enabled", "type"} |->
                           IF j = "enabled"
                           THEN Scalar("bool", IF c.regression.enabled
                                               THEN "true" ELSE "false")
                           ELSE EnumNode(dumper, c.regression.type)])
          [] OTHER ->
                [kind |-> "list", items |-> [i \in 1..Len(c.annotations) |->
                    MapNode([j \in {"type", "arrow_head_style", "x_end"} |->
                       CASE j = "type" -> EnumNode(dumper, c.annotations[i].type)
                         [] j = "arrow_head_style" ->
                               EnumNode(dumper, c.annotations[i].arrow_head_style)
                         [] OTHER ->
                               IF c.annotations[i].x_end = NoColumn THEN Scalar("null", "")
                               ELSE Scalar("float", c.annotations[i].x_end)])]]])

\* a plausible slip: enum members written as the object dumper writes them
ToJsonAsObjects(c) == Dump(c, "yaml")

\* ChartConfig.to_json
ToJson(c) == Dump(c, "json")

RECURSIVE HasPythonTag(_)
\* yaml.safe_load has no constructor for python/* tags
HasPythonTag(n) ==
    CASE n.kind = "python/object/apply" -> TRUE
      [] n.kind = "map" -> \E k \in DOMAIN n.items : HasPythonTag(n.items[k])
      [] n.kind = "list" -> \E i \in 1..Len(n.items) : HasPythonTag(n.items[i])
      [] OTHER -> FALSE

Invalid == [ok |-> FALSE, value |-> "error"]

Valid(v) == [ok |-> TRUE, value |-> v]

\* validation of an enum-typed field
ValidateEnum(n, members) ==
    IF n.kind = "str" /\ n.val \in members THEN Valid(n.val) ELSE Invalid

\* validation of Optional[str] / Optional[float]
ValidateOptional(n, kind) ==
    IF n.kind = "null" THEN Valid(NoColumn)
    ELSE IF n.kind = kind THEN Valid(n.val)
    ELSE Invalid

Field(m, k, default) == IF k \in DOMAIN m THEN m[k] ELSE default

\* RegressionConfig(**data): unknown keys ignored, missing keys defaulted
ValidateRegression(n) ==
    IF n.kind # "map" THEN Invalid
    ELSE LET en == Field(n.items, "enabled", Scalar("bool", "false"))
             ty == ValidateEnum(Field(n.items, "type", Scalar("str", DefaultRegression.type)),
                                {"linear", "polynomial", "exponential", "logarithmic"})
         IN  IF en.kind = "bool" /\ ty.ok
             THEN Valid(RegressionConfig(en.val = "true", ty.value))
             ELSE Invalid

\* AnnotationConfig(**data)
ValidateAnnotation(n) ==
    IF n.kind # "map" THEN Invalid
    ELSE LET ty == ValidateEnum(Field(n.items, "type", Scalar("str", DefaultAnnotation.type)),
                                AnnotationType)
             st == ValidateEnum(Field(n.items, "arrow_head_style",
                                      Scalar("str", DefaultAnnotation.arrow_head_style)),
                                ArrowHeadStyle)
             xe == ValidateOptional(Field(n.items, "x_end", Scalar("null", "")), "float")
         IN  IF ty.ok /\ st.ok /\ xe.ok
             THEN Valid(AnnotationConfig(ty.value, st.value, xe.value))
             ELSE Invalid

\* a plausible slip: the model forbids unknown keys (extra="forbid")
ValidateForbidExtra(n) ==
    IF n.kind # "map" THEN Invalid
    ELSE IF ~(DOMAIN n.items \subseteq
                {"chart_type", "x_column", "title", "regression", "annotations"})
    THEN Invalid
    ELSE LET m == n.items
             ct == ValidateEnum(Field(m, "chart_type", Scalar("str", DefaultTree.chart_type)),
                                ChartType)
             x == ValidateOptional(Field(m, "x_column", Scalar("null", "")), "str")
             ti == Field(m, "title", Scalar("str", DefaultTree.title))
             rg == IF "regression" \in DOMAIN m THEN ValidateRegression(m["regression"])
                   ELSE Valid(DefaultRegression)
             an == Field(m, "annotations", [kind |-> "list", items |-> <<>>])
             as == IF an.kind = "list"
                   THEN [i \in 1..Len(an.items) |-> ValidateAnnotation(an.items[i])]
                   ELSE <<>>
         IN  IF /\ ct.ok /\ x.ok /\ ti.kind = "str" /\ rg.ok /\ an.kind = "list"
                /\ \A i \in 1..Len(as) : as[i].ok
             THEN Valid(ConfigTree(ct.value, x.value, ti.val, rg.value,
                                   [i \in 1..Len(as) |-> as[i].value]))
             ELSE Invalid

\* ChartConfig(**data): pydantic validation of the parsed document; unknown
\* keys are ignored and missing keys take the declared default at every
\* level (the models declare no model_config)
Validate(n) ==
    IF n.kind # "map" THEN Invalid
    ELSE LET m == n.items
             ct == ValidateEnum(Field(m, "chart_type", Scalar("str", DefaultTree.chart_type)),
                                ChartType)
             x == ValidateOptional(Field(m, "x_column", Scalar("null", "")), "str")
             ti == Field(m, "title", Scalar("str", DefaultTree.title))
             rg == IF "regression" \in DOMAIN m THEN ValidateRegression(m["regression"])
                   ELSE Valid(DefaultRegression)
             an == Field(m, "annotations", [kind |-> "list", items |-> <<>>])
             as == IF an.kind = "list"
                   THEN [i \in 1..Len(an.items) |-> ValidateAnnotation(an.items[i])]
                   ELSE <<>>
         IN  IF /\ ct.ok /\ x.ok /\ ti.kind = "str" /\ rg.ok /\ an.kind = "list"
                /\ \A i \in 1..Len(as) : as[i].ok
             THEN Valid(ConfigTree(ct.value, x.value, ti.val, rg.value,
                                   [i \in 1..Len(as) |-> as[i].value]))
             ELSE Invalid

\* ChartConfig.from_json: json.loads, then validation
FromJson(n) == Validate(n)

\* an unknown key added to a mapping
WithKey(n, k) ==
    MapNode([j \in DOMAIN n.items \cup {k} |->
               IF j = k /\ k \notin DOMAIN n.items THEN Scalar("str", "later") ELSE n.items[j]])

\* a key left out of a mapping
WithoutKey(n, k) == MapNode([j \in DOMAIN n.items \ {k} |-> n.items[j]])

\* the same change applied to one child of a mapping or to one list entry
InChild(n, k, child) == [n EXCEPT !.items[k] = child]

\* one annotation of each of the 6 types
AllTypesAnnotations ==
    <<AnnotationConfig("text", "triangle", NoColumn),
      AnnotationConfig("arrow", "open", "2.5"),
      AnnotationConfig("line", "none", "2.5"),
      AnnotationConfig("rect", "circle", NoColumn),
      AnnotationConfig("vline", "square", NoColumn),
      AnnotationConfig("hline", "diamond", NoColumn)>>

NoDocument == [format |-> "none", tree |-> Scalar("null", ""), origin |-> "none", at |-> <<>>]

----------------------------------------------------------------------------
(* components/chart_config.py, app.py: the configuration panel and a run
   of the single-chart page *)

\* a ChartConfig as the panel reads it: the column references and one field
\* of each group the panel copies (title, styling, legend, regression,
\* annotations)
PanelConfig(ct, x, ys, y2s, color, title, size, legend, reg, anns) ==
    [chart_type |-> ct, x_column |-> x, y_columns |-> ys, y2_columns |-> y2s,
     color_column |-> color, title |-> title, marker_size |-> size,
     legend_show |-> legend, regression_enabled |-> reg, annotations |-> anns]

\* template_manager.PRESETS
PRESETS ==
    [n \in {"scatter_simple", "line_clean", "bar_grouped", "publication_nature"} |->
        CASE n = "scatter_simple" ->
                PanelConfig("scatter", NoColumn, <<>>, <<>>, NoColumn,
                            "Nuage de points", "10.0", TRUE, FALSE, <<>>)
          [] n = "line_clean" ->
                PanelConfig("scatter", NoColumn, <<>>, <<>>, NoColumn,
                            "Courbe", "6.0", TRUE, FALSE, <<>>)
          [] n = "bar_grouped" ->
                PanelConfig("scatter", NoColumn, <<>>, <<>>, NoColumn,
                            "Barres groupees", "8.0", TRUE, FALSE, <<>>)
          [] OTHER ->
                PanelConfig("scatter", NoColumn, <<>>, <<>>, NoColumn,
                            "Figure", "4.0", TRUE, FALSE, <<>>)]

\* the saved configurations offered to a session: what load_template or an
\* imported file can hold
LoadableConfigs ==
    {PanelConfig(ct, x, ys, <<>>, NoColumn, "Saved", "12.0", FALSE, TRUE, <<>>) :
        ct \in {"line", "scatter"},
        x \in {NoColumn, "a", "zz"},
        ys \in {<<>>, <<"a">>, <<"zz">>, <<"a", "zz">>, <<"a", "b">>}}

\* the session's widget values, as an earlier run of the panel left them
Widgets(ct, x, ys, ysingle, y2s, color, title, size, legend, reg, anns) ==
    [chart_type |-> ct, x_column |-> x, y_columns |-> ys, y_column_single |-> ysingle,
     y2_columns |-> y2s, color_column |-> color, chart_title |-> title,
     marker_size |-> size, show_legend |-> legend, regression_enabled |-> reg,
     chart_annotations |-> anns]

PriorWidgets ==
    {Widgets(ct, x, ys, "a", <<>>, color, "Figure", "8.0", TRUE, FALSE, <<>>) :
        ct \in {"line", "scatter"},
        x \in {NoColumn, "b"},
        ys \in {<<>>, <<"b">>},
        color \in {NoColumn, "c"}}

RECURSIVE ValidColumns(_, _)
\* [c for c in q if c in all_columns]
ValidColumns(q, all_columns) ==
    IF q = <<>> THEN <<>>
    ELSE IF Head(q) \in all_columns
         THEN <<Head(q)>> \o ValidColumns(Tail(q), all_columns)
         ELSE ValidColumns(Tail(q), all_columns)

\* _apply_pending_config: copies the loaded config into the widget values,
\* statement by statement; reading an attribute the model does not declare
\* raises AttributeError and leaves what was written so far
ApplyPendingConfig(w, c, all_columns) ==
    LET vy == ValidColumns(c.y_columns, all_columns)
        vy2 == ValidColumns(c.y2_columns, all_columns)
        w1 == [w EXCEPT !.chart_type = c.chart_type,
                        !.x_column = IF c.x_column # NoColumn /\ c.x_column \in all_columns
                                     THEN c.x_column ELSE @,
                        !.y_columns = IF vy # <<>> THEN vy ELSE @,
                        !.y2_columns = IF vy2 # <<>> THEN vy2 ELSE @,
                        !.color_column = IF c.color_column # NoColumn
                                            /\ c.color_column \in all_columns
                                         THEN c.color_column ELSE @,
                        !.chart_title = c.title,
                        !.marker_size = c.marker_size]
        w2 == [w1 EXCEPT !.show_legend = c.legend_show]
        w3 == [w2 EXCEPT !.regression_enabled = c.regression_enabled,
                         !.chart_annotations = IF c.annotations # <<>>
                                               THEN c.annotations ELSE @]
        \* the fields ChartConfig and LegendConfig declare
        ChartConfigFields ==
            {"chart_type", "x_column", "y_columns", "color_column", "size_column",
             "facet_column", "y2_columns", "y2_axis", "aggregation", "group_by",
             "title", "subtitle", "x_axis", "y_axis", "legend", "grid", "theme",
             "color_palette", "marker_size", "line_width", "opacity", "marker_style",
             "line_style", "show_values", "annotations", "regression"}
        LegendConfigFields ==
            {"show", "position", "orientation", "title", "font_size", "background_alpha"}
    IN  IF "y2_marker_style" \notin ChartConfigFields
        THEN [raised |-> TRUE, widgets |-> w1]
        ELSE IF "font_color" \notin LegendConfigFields
        THEN [raised |-> TRUE, widgets |-> w2]
        ELSE [raised |-> FALSE, widgets |-> w3]

\* a plausible slip: a config returned by the template panel is kept
StoreBuiltUnlessLoaded(held, built) ==
    IF held.ref \notin {"own", "none"} THEN held ELSE [ref |-> "own", config |-> built]

\* app.py 295: st.session_state.config = config, a new object
StoreBuilt(held, built) == [ref |-> "own", config |-> built]

\* the tree save_template serializes for a session config
AsTree(c) ==
    ConfigTree(c.chart_type, c.x_column, c.title,
               RegressionConfig(c.regression_enabled, "linear"),
               [i \in 1..Len(c.annotations) |->
                   AnnotationConfig(c.annotations[i], "triangle", NoColumn)])

NoConfig == [chart_type |-> "<None>"]

----------------------------------------------------------------------------
(* core/template_manager.py: the template directory *)

\* template names as the panel cleans them (alphanumerics, _ and -), in
\* the order sorted() gives
TemplateNames == <<"line_clean", "my_plot", "scatter_simple">>

\* the configs the sessions save
TemplateConfigs ==
    {DefaultTree,
     ConfigTree("bar", NoColumn, "Figure", RegressionConfig(TRUE, "polynomial"), <<>>),
     ConfigTree("line", "a", "Figure", DefaultRegression,
                <<AnnotationConfig("rect", "triangle", NoColumn)>>)}

\* the text f.write receives: block i of the document, whose length grows
\* with its annotation list
Blocks(tree) ==
    [i \in 1..(1 + Len(tree.items["annotations"].items)) |-> [of |-> tree, part |-> i]]

\* open(filepath, 'w'): creates the file or truncates it
OpenTruncate(fs, n) == [fs EXCEPT ![n] = [exists |-> TRUE, data |-> <<>>]]

\* the write behind f.write / close: the bytes go to offset 0 of the file
\* as it is now, and bytes beyond them stay
WriteAtStart(fs, n, blocks) ==
    [fs EXCEPT ![n] = [exists |-> TRUE,
                      data |-> blocks \o SubSeq(@.data, Len(blocks) + 1, Len(@.data))]]

\* json.loads of the bytes read: one complete document and nothing else
None == [kind |-> "none", value |-> "None"]

\* save_template: the directory after the call (the call returns True)
SaveTemplate(fs, n, c) == WriteAtStart(OpenTruncate(fs, n), n, Blocks(ToJson(c)))

\* load_template
LoadTemplate(fs, n) ==
    IF ~fs[n].exists THEN None
    ELSE LET data == fs[n].data
             \* json.load: the text parses when it is one complete document
             parsed == IF /\ data # <<>>
                          /\ Len(data) = 1 + Len(data[1].of.items["annotations"].items)
                          /\ \A i \in 1..Len(data) :
                                data[i].of = data[1].of /\ data[i].part = i
                       THEN Valid(data[1].of)
                       ELSE Invalid
             made == IF parsed.ok THEN FromJson(parsed.value) ELSE Invalid
         IN  IF made.ok THEN [kind |-> "config", value |-> made.value] ELSE None

\* delete_template
DeleteTemplate(fs, n) ==
    IF fs[n].exists
    THEN [files |-> [fs EXCEPT ![n] = [exists |-> FALSE, data |-> <<>>]], ret |-> [kind |-> "bool", value |-> TRUE]]
    ELSE [files |-> fs, ret |-> [kind |-> "bool", value |-> FALSE]]

\* a plausible slip: the names are returned in glob order
ListTemplatesUnsorted(globbed) == globbed

\* list_templates, given the order glob yielded: sorted(templates), which
\* for distinct names is the stored names in the order of TemplateNames
ListTemplates(globbed) == SelectSeq(TemplateNames, LAMBDA n : n \in Range(globbed))

----------------------------------------------------------------------------
(* viz/viz_engine.py: annotations *)

\* whether the branch of _add_annotations or _add_mpl_annotations for ann
\* raises. An annotation is read here by its type and its colour, a str that
\* AnnotationConfig does not validate: "#ff0000", the CSS name "red", or the
\* malformed "#ff00zz". Both libraries validate a colour when the shape,
\* patch, line or text is constructed; the rect branch of _add_annotations
\* first parses the colour as six hex digits (int(hex_color[i:i+2], 16))
AnnotationRaises(b, ann) ==
    \/ ann.color \notin {"#ff0000", "red"}
    \/ b = "plotly" /\ ann.type = "rect" /\ ann.color # "#ff0000"

RECURSIVE AnnotationLoop(_, _)
\* for ann in config.annotations: try: ... except Exception: pass
AnnotationLoop(b, anns) ==
    IF anns = <<>> THEN <<>>
    ELSE IF AnnotationRaises(b, Head(anns)) THEN AnnotationLoop(b, Tail(anns))
    ELSE <<Head(anns)>> \o AnnotationLoop(b, Tail(anns))

\* a plausible slip: no try inside the loop, the first failure propagates to
\* the handler of the render method
AddAnnotationsUnguarded(b, anns) ==
    LET failing == {i \in 1..Len(anns) : AnnotationRaises(b, anns[i])}
    IN  IF failing = {} THEN [raised |-> FALSE, drawn |-> anns]
        ELSE LET k == CHOOSE i \in failing : \A j \in failing : i <= j
             IN  [raised |-> TRUE, drawn |-> SubSeq(anns, 1, k - 1)]

\* _add_annotations and _add_mpl_annotations
AddAnnotations(b, anns) == [raised |-> FALSE, drawn |-> AnnotationLoop(b, anns)]

----------------------------------------------------------------------------
(* components/data_filter.py, components/data_explorer.py, app.py: the table,
   its filters and its profile *)

\* the values of the table's numeric column "a", in increasing order
CellValues == <<"0", "1", "2">>

\* float(v) of a cell of column "a"
Float(v) == CHOOSE i \in 1..Len(CellValues) : CellValues[i] = v

\* the table's second column "t", of dtype object: the text of the row whose
\* "a" is v, as the value itself and as its characters
Label(v) ==
    CASE v = "0" -> [name |-> "ab", chars |-> <<"a", "b">>]
      [] v = "1" -> [name |-> "b", chars |-> <<"b">>]
      [] OTHER -> [name |-> "ba", chars |-> <<"b", "a">>]

\* a stored filter value is a str, as its characters, or a float d.0, written
\* <<d>>; float(val) succeeds: val is a float, or the text of one
IsNumber(val) ==
    /\ val # <<>>
    /\ val[1] \in Range(CellValues)
    /\ Tail(val) \in {<<>>, <<".", "0">>}

RECURSIVE RenderFilterWidgets(_, _)
\* the loop that renders the stored filters (data_filter.py 39-91): each
\* filter's column, operator and value are read from its widgets and written
\* back; number_input is handed float(value), which raises ValueError on a
\* text that is no number and ends the run at filter `at`
RenderFilterWidgets(filters, i) ==
    IF i > Len(filters) THEN [raised |-> FALSE, at |-> 0, filters |-> filters]
    ELSE LET f == filters[i]
             numeric == f.column = "a"
             op_map == IF numeric
                       THEN {"equals", "not_equals", "greater", "less", "gte", "lte"}
                       ELSE {"equals", "not_equals", "contains", "startswith", "endswith"}
             operator == IF f.operator \in op_map THEN f.operator ELSE "equals"
         IN  IF numeric /\ f.value # <<>> /\ ~IsNumber(f.value)
             THEN [raised |-> TRUE, at |-> i,
                   filters |-> [filters EXCEPT ![i].operator = operator]]
             ELSE RenderFilterWidgets(
                      [filters EXCEPT
                          ![i].operator = operator,
                          ![i].value =
                              IF numeric
                              THEN (IF f.value = <<>> THEN <<"0">> ELSE <<f.value[1]>>)
                              \* str(value)
                              ELSE IF Len(f.value) = 1 /\ IsNumber(f.value)
                                   THEN f.value \o <<".", "0">>
                                   ELSE f.value],
                      i + 1)

\* one "Apply filters" step raises: float(val) of a text, a comparison of
\* the object column with a float, or re.compile of an unbalanced pattern
FilterRaises(f) ==
    \/ f.operator \in {"greater", "less", "gte", "lte"} /\ ~IsNumber(f.value)
    \/ f.operator \in {"greater", "less", "gte", "lte"} /\ f.column = "t"
    \/ f.operator \in {"equals", "not_equals"} /\ f.column = "a" /\ ~IsNumber(f.value)
    \/ f.operator = "contains" /\ "(" \in Range(f.value)

RECURSIVE SelectRows(_, _)
\* filtered_df[mask], the mask being the comparison render_data_filter builds
\* for the filter's operator
SelectRows(rows, f) ==
    LET v == Float(Head(rows))
        val == Float(f.value[1])
        \* filtered_df[col].astype(str): the cell as text
        text == IF f.column = "a" THEN <<Head(rows)>> ELSE Label(Head(rows)).chars
        n == Len(f.value)
        keeps == CASE f.operator = "equals" ->
                        IF f.column = "a" THEN v = val ELSE text = f.value
                   [] f.operator = "not_equals" ->
                        IF f.column = "a" THEN v # val ELSE text # f.value
                   [] f.operator = "greater" -> v > val
                   [] f.operator = "less" -> v < val
                   [] f.operator = "gte" -> v >= val
                   [] f.operator = "lte" -> v <= val
                   [] f.operator = "contains" ->
                        \E k \in 0..(Len(text) - n) : SubSeq(text, k + 1, k + n) = f.value
                   [] f.operator = "startswith" ->
                        n <= Len(text) /\ SubSeq(text, 1, n) = f.value
                   [] OTHER ->
                        n <= Len(text) /\ SubSeq(text, Len(text) - n + 1, Len(text)) = f.value
    IN  IF rows = <<>> THEN <<>>
        ELSE IF keeps THEN <<Head(rows)>> \o SelectRows(Tail(rows), f)
        ELSE SelectRows(Tail(rows), f)

RECURSIVE ApplyFilters(_, _)
\* the "Apply filters" loop of render_data_filter: a filter with an empty
\* value is passed over, one that raises leaves filtered_df as it was
ApplyFilters(rows, filters) ==
    IF filters = <<>> THEN rows
    ELSE IF Head(filters).value = <<>> \/ FilterRaises(Head(filters))
    THEN ApplyFilters(rows, Tail(filters))
    ELSE ApplyFilters(SelectRows(rows, Head(filters)), Tail(filters))

RECURSIVE Unique(_)
\* series.unique(): the distinct values in order of first appearance
Unique(rows) ==
    IF rows = <<>> THEN <<>>
    ELSE LET init == Unique(SubSeq(rows, 1, Len(rows) - 1))
             last == rows[Len(rows)]
         IN  IF last \in Range(init) THEN init ELSE Append(init, last)

----------------------------------------------------------------------------
(* core/data_loader.py, components/file_uploader.py: loading a table *)

\* DataLoader.SUPPORTED_FORMATS
SUPPORTED_FORMATS ==
    [ext \in {".csv", ".tsv", ".json", ".yaml", ".yml", ".xlsx", ".xls", ".parquet"} |->
        CASE ext \in {".csv", ".tsv"} -> "csv"
          [] ext = ".json" -> "json"
          [] ext \in {".yaml", ".yml"} -> "yaml"
          [] ext \in {".xlsx", ".xls"} -> "excel"
          [] OTHER -> "parquet"]

\* the files handed to the loader: the suffix of the name, the size in bytes
\* and the content: a table of rows, a document that is a single scalar, or
\* nothing at all
Files ==
    [suffix : {".csv", ".CSV", ".json", ".yml", ".xlsx", ".txt"},
     size : {1024, 100 * 1024 * 1024, 100 * 1024 * 1024 + 1},
     content : {"table", "scalar", "empty"},
     rows : {<<"1">>, <<"0", "2">>}]

\* detect_format and the try block of load: the format is detected from the
\* lower-cased suffix; a document of the format that is a table loads as its
\* rows (a CSV text of one scalar is a header without rows); `raised` is the
\* text of the exception the parser raises, if any
TryLoad(file) ==
    LET lower == CASE file.suffix = ".CSV" -> ".csv" [] OTHER -> file.suffix
        format == IF lower \in DOMAIN SUPPORTED_FORMATS THEN SUPPORTED_FORMATS[lower]
                  ELSE "unknown"
    IN  [format |-> format,
         rows |-> IF file.content = "table" THEN file.rows ELSE <<>>,
         raised |->
            CASE file.content = "table" -> ""
              [] file.content = "scalar" ->
                    CASE format = "csv" -> ""
                      [] format = "json" -> "Structure JSON non supportée"
                      [] format = "yaml" -> "Structure YAML non supportée"
                      [] OTHER -> "File is not a zip file"
              [] OTHER ->
                    CASE format = "csv" -> "No columns to parse from file"
                      [] format = "json" -> "Expecting value: line 1 column 1 (char 0)"
                      [] format = "yaml" -> "Structure YAML non supportée"
                      [] OTHER -> "File is not a zip file"]

\* a plausible slip: load without the reset of _last_error at its start
DataLoaderLoadKeepsError(prior, file) ==
    LET try == TryLoad(file)
    IN  IF try.format = "unknown"
        THEN [last_error |-> PyStr(<<"Format de fichier non reconnu">>),
              ret |-> [isNone |-> TRUE, rows |-> <<>>]]
        ELSE IF try.raised # ""
        THEN [last_error |-> PyStr(<<"Erreur de chargement: ", try.raised>>),
              ret |-> [isNone |-> TRUE, rows |-> <<>>]]
        ELSE [last_error |-> prior, ret |-> [isNone |-> FALSE, rows |-> try.rows]]

\* DataLoader.load on a loader whose _last_error was `prior`: the error is
\* reset, an unknown format and any exception of the parser become the error
\* and None is returned
DataLoaderLoad(prior, file) ==
    LET try == TryLoad(file)
    IN  IF try.format = "unknown"
        THEN [last_error |-> PyStr(<<"Format de fichier non reconnu">>),
              ret |-> [isNone |-> TRUE, rows |-> <<>>]]
        ELSE IF try.raised # ""
        THEN [last_error |-> PyStr(<<"Erreur de chargement: ", try.raised>>),
              ret |-> [isNone |-> TRUE, rows |-> <<>>]]
        ELSE [last_error |-> PyNone, ret |-> [isNone |-> FALSE, rows |-> try.rows]]

\* a plausible slip: among equal counts the last candidate wins
DetectDelimiterLastOfTies(sample) ==
    LET delimiters == <<",", ";", "\t", "|">>
        counts == [d \in Range(delimiters) |->
                      Cardinality({i \in 1..Len(sample) : sample[i] = d})]
        RECURSIVE MaxKey(_, _)
        MaxKey(best, k) ==
            IF k > Len(delimiters) THEN best
            ELSE MaxKey(IF counts[delimiters[k]] >= counts[best] THEN delimiters[k] ELSE best,
                        k + 1)
    IN  IF \E d \in Range(delimiters) : counts[d] > 0
        THEN MaxKey(delimiters[1], 2) ELSE ","

\* _detect_delimiter: sample.count(d) for each candidate, then max over the
\* dict's keys in insertion order, which keeps the first key among equal
\* counts
DetectDelimiter(sample) ==
    LET delimiters == <<",", ";", "\t", "|">>
        counts == [d \in Range(delimiters) |->
                      Cardinality({i \in 1..Len(sample) : sample[i] = d})]
        RECURSIVE MaxKey(_, _)
        MaxKey(best, k) ==
            IF k > Len(delimiters) THEN best
            ELSE MaxKey(IF counts[delimiters[k]] > counts[best] THEN delimiters[k] ELSE best,
                        k + 1)
    IN  IF \E d \in Range(delimiters) : counts[d] > 0
        THEN MaxKey(delimiters[1], 2) ELSE ","

----------------------------------------------------------------------------
(* State groups *)

avars == <<series, detected, columns, suggestions, df, profile>>

evars == <<table, config, backend, last_error, result, routine, styled, wroteError,
           open_figures>>

uvars == <<uiPath, message, reached, figure, script>>

svars == <<cfg, doc, loaded>>

cvars == <<widgets, pending_config_load, session_config, loaded_config, applyRaised,
           presets, session_ref>>

tvars == <<files, saved, lastOp, ret, writers>>

wvars == <<annotations, drawn, ends, frame, data_filters, filtered_df, session_profile,
           app_mode, export_df, clicks, loader_error, load_ret, uploader, csv>>

xvars == <<svars, cvars, tvars, wvars>>

vars == <<pc, avars, evars, uvars, xvars>>

\* the parts of the state no operation has touched: a new analyzer input,
\* VizEngine.__init__, nothing shown, nothing serialized, main's
\* initialisation of the session state, an empty template directory, no
\* table loaded; the parts named in `own` are left to the caller
Idle(own) ==
    /\ IF "analyzer" \in own THEN TRUE
       ELSE /\ series = Series("a", "int64", <<>>, 0, "none", FALSE)
            /\ detected = "none"
            /\ columns = <<>>
            /\ suggestions = <<>>
            /\ df = <<>>
            /\ profile = NoResult
    /\ IF "engine" \in own THEN TRUE
       ELSE /\ config = DefaultConfig
            /\ backend = "none"
            /\ last_error = PyNone
            /\ result = "none"
            /\ routine = "none"
            /\ styled = FALSE
            /\ wroteError = FALSE
            /\ open_figures = 0
    /\ IF "ui" \in own THEN TRUE
       ELSE /\ uiPath = "none"
            /\ message = "none"
            /\ reached = {}
            /\ figure = [traces |-> <<>>, valid |-> 0, fit |-> "none"]
            /\ script = [backend |-> "none", body |-> <<>>]
    /\ IF "serial" \in own THEN TRUE
       ELSE /\ cfg = DefaultTree
            /\ doc = NoDocument
            /\ loaded = "none"
    /\ IF "panel" \in own THEN TRUE
       ELSE /\ widgets = Widgets("scatter", NoColumn, <<>>, "a", <<>>, NoColumn, "Figure", "8.0",
                                 TRUE, FALSE, <<>>)
            /\ pending_config_load = NoConfig
            /\ session_config = NoConfig
            /\ loaded_config = NoConfig
            /\ applyRaised = FALSE
            /\ presets = PRESETS
            /\ session_ref = "none"
    /\ IF "store" \in own THEN TRUE
       ELSE /\ files = [n \in Range(TemplateNames) |-> [exists |-> FALSE, data |-> <<>>]]
            /\ saved = [n \in Range(TemplateNames) |-> NoConfig]
            /\ lastOp = [op |-> "none", name |-> "none"]
            /\ ret = None
            /\ writers = [w \in {"s1", "s2"} |-> [at |-> "idle", config |-> DefaultTree]]
    /\ IF "later" \in own THEN TRUE
       ELSE /\ annotations = <<>>
            /\ drawn = <<>>
            /\ ends = <<>>
            /\ frame = <<>>
            /\ data_filters = <<>>
            /\ filtered_df = <<>>
            /\ session_profile = NoResult
            /\ app_mode = "none"
            /\ export_df = [called |-> FALSE, df |-> <<>>]
            /\ clicks = 0
            /\ loader_error = PyNone
            /\ load_ret = [isNone |-> TRUE, rows |-> <<>>]
            /\ uploader = [loads |-> 0, message |-> "none", called |-> FALSE,
                           file |-> [suffix |-> "", size |-> 0, content |-> "empty", rows |-> <<>>],
                           ret |-> [isNone |-> TRUE, rows |-> <<>>]]
            /\ csv = [sample |-> <<>>, delimiter |-> "none"]

----------------------------------------------------------------------------
(* Actions *)

\* _detect_column_type applied to the series, as _analyze_column calls it
Detect ==
    /\ pc = "init"
    /\ detected' = DetectColumnType(series, UniqueCount(series))
    /\ pc' = "detected"
    /\ UNCHANGED <<series, columns, suggestions, df, profile, evars, uvars, xvars>>

\* _suggest_charts applied to a list of column profiles
Suggest ==
    /\ pc = "init"
    /\ suggestions' = SuggestCharts(columns)
    /\ pc' = "suggested"
    /\ UNCHANGED <<series, detected, columns, df, profile, evars, uvars, xvars>>

\* DataAnalyzer.analyze applied to the table
Analyze ==
    /\ pc = "init"
    /\ profile' = AnalyzeResult(df)
    /\ pc' = "analyzed"
    /\ UNCHANGED <<series, detected, columns, suggestions, df, evars, uvars, xvars>>

\* one call of a render method on the engine; lib is what the plotting
\* libraries do on the call (succeed, or raise during setup, inside the chart
\* routine or inside the shared styling) and msg the str(e) of what they raise
Render(b, c, lib, msg) ==
    LET r == CreateFigure(b, last_error, table, c, lib, msg)
    IN  /\ config' = c
        /\ backend' = b
        /\ last_error' = r.last_error
        /\ result' = r.result
        /\ routine' = r.routine
        /\ styled' = r.styled
        /\ wroteError' = r.wrote
        /\ open_figures' = open_figures + r.open
        /\ pc' = "rendered"

\* VizEngine.create_plotly_figure
CreatePlotlyFigure ==
    /\ pc = "init"
    /\ \E c \in Configs, lib \in {"ok", "setup", "dispatch", "styling"}, msg \in {"", "invalid value"} :
          Render("plotly", c, lib, msg)
    /\ UNCHANGED <<table, avars, uvars, xvars>>

\* VizEngine.create_matplotlib_figure
CreateMatplotlibFigure ==
    /\ pc = "init"
    /\ \E c \in Configs, lib \in {"ok", "setup", "dispatch", "styling"}, msg \in {"", "invalid value"} :
          Render("matplotlib", c, lib, msg)
    /\ UNCHANGED <<table, avars, uvars, xvars>>

\* render_chart_preview: validation, then a fresh engine renders the config
\* in both backends; the interactive figure is the result
RenderChartPreview ==
    LET \* chart_preview._validate_config
        ValidateConfig(c) ==
            IF c.chart_type = "heatmap" THEN Len(c.y_columns) >= 2
            ELSE IF c.chart_type = "histogram" THEN c.x_column # NoColumn
            ELSE c.x_column # NoColumn \/ Len(c.y_columns) > 0
    IN
    /\ pc = "init"
    /\ \E c \in Configs, lib1 \in {"ok", "setup", "dispatch", "styling"},
          lib2 \in {"ok", "setup", "dispatch", "styling"}, msg \in {"", "invalid value"} :
          /\ config' = c
          /\ uiPath' = "preview"
          /\ IF ~ValidateConfig(c)
             THEN /\ message' = "configure"
                  /\ reached' = {}
                  /\ result' = "None"
                  /\ UNCHANGED <<backend, last_error, routine, styled, wroteError,
                                 open_figures>>
             ELSE LET p == CreateFigure("plotly", PyNone, table, c, lib1, msg)
                      m == CreateFigure("matplotlib", p.last_error, table, c, lib2, msg)
                  IN  /\ reached' = {"plotly", "matplotlib"}
                      /\ message' = IF p.result = "None" THEN "error" ELSE "chart"
                      /\ result' = p.result
                      /\ backend' = "matplotlib"
                      /\ last_error' = m.last_error
                      /\ routine' = m.routine
                      /\ styled' = m.styled
                      /\ wroteError' = m.wrote
                      \* plt.close(fig) on the figure returned
                      /\ open_figures' = open_figures
                                            + (IF m.result = "figure" THEN 0 ELSE m.open)
    /\ pc' = "ui"
    /\ UNCHANGED <<table, figure, script, avars, xvars>>

\* _render_dashboard_grid, one cell: the guard on y_columns, then the
\* publication backend; a None figure ends in st.error
RenderDashboardGrid ==
    LET \* the config_dict a dashboard cell's widgets store: a type among
        \* dashboard.chart_type_options, X among the columns or empty, Y a selection
        \* of the numeric columns, colour among the columns
        DashboardConfigs(t) ==
            {ChartConfig(ct, x, ys, <<>>, color, FALSE) :
                ct \in {"line", "scatter", "bar", "histogram", "area", "box", "pie", "heatmap",
                        "violin", "funnel", "treemap", "sunburst"},
                x \in {NoColumn} \cup Range(t.labels),
                ys \in {q \in UNION {[1..n -> Range(t.numeric)] : n \in 0..MaxY} :
                           \A i, j \in 1..Len(q) : q[i] = q[j] => i = j},
                color \in {NoColumn} \cup Range(t.labels)}
    IN
    /\ pc = "init"
    /\ \E c \in DashboardConfigs(table), lib \in {"ok", "setup", "dispatch", "styling"},
          msg \in {"", "invalid value"} :
          /\ config' = c
          /\ uiPath' = "dashboard"
          /\ IF c.y_columns = <<>>
             THEN /\ message' = "configure"
                  /\ reached' = {}
                  /\ result' = "None"
                  /\ UNCHANGED <<backend, last_error, routine, styled, wroteError,
                                 open_figures>>
             ELSE LET m == CreateFigure("matplotlib", last_error, table, c, lib, msg)
                  IN  /\ reached' = {"matplotlib"}
                      /\ message' = IF m.result = "figure" THEN "chart" ELSE "error"
                      /\ result' = m.result
                      /\ backend' = "matplotlib"
                      /\ last_error' = m.last_error
                      /\ routine' = m.routine
                      /\ styled' = m.styled
                      /\ wroteError' = m.wrote
                      \* plt.close(fig) on the figure returned
                      /\ open_figures' = open_figures
                                            + (IF m.result = "figure" THEN 0 ELSE m.open)
    /\ pc' = "ui"
    /\ UNCHANGED <<table, figure, script, avars, xvars>>

\* export_panel._export_matplotlib: offered in single-chart mode once the
\* preview of this run returned a figure; renders the session's config
ExportMatplotlib ==
    /\ pc = "ui"
    /\ uiPath = "preview"
    /\ result = "figure"
    /\ \E lib \in {"ok", "setup", "dispatch", "styling"}, msg \in {"", "invalid value"} :
          LET m == CreateFigure("matplotlib", PyNone, table, config, lib, msg)
          IN  /\ reached' = {"matplotlib"}
              /\ message' = IF m.result = "None" THEN "error" ELSE "download"
              /\ result' = m.result
              /\ backend' = "matplotlib"
              /\ last_error' = m.last_error
              /\ routine' = m.routine
              /\ styled' = m.styled
              /\ wroteError' = m.wrote
              \* plt.close(mpl_fig) on the figure returned
              /\ open_figures' = open_figures + (IF m.result = "figure" THEN 0 ELSE m.open)
    /\ uiPath' = "export"
    /\ pc' = "ui"
    /\ UNCHANGED <<table, config, figure, script, avars, xvars>>

----------------------------------------------------------------------------
(* Specifications *)

InitDetect ==
    LET \* the Series a DataFrame can hold, by dtype
        SeriesOf(name) ==
            {Series(name, d, u, n, "none", FALSE) :
                d \in {"int64", "float64"}, u \in {<<>>, <<"0">>, <<"1">>, <<"0", "1">>, <<"1", "0">>,
                                                   <<"1", "2">>, <<"0", "1", "2">>,
                                                   Prefix(NumSeq, 20), NumSeq},
                n \in {0, 1}}
            \cup {Series(name, "bool", u, 0, "none", FALSE) :
                u \in {<<>>, <<"True">>, <<"False">>, <<"True", "False">>}}
            \cup {Series(name, "datetime64[ns]", u, n, "none", FALSE) :
                u \in {<<>>, <<"2024-01-01">>, DateSeq}, n \in {0, 1}}
            \cup {Series(name, "object", u, n, k, FALSE) :
                u \in WordValues \cup
                      {<<"2024-01-01">>, DateSeq, <<"2024-01-01", "w0">>,
                       <<"0", "1">>, <<"True", "False">>, <<"True">>, <<"0", "1", "2">>},
                n \in {0, 1}, k \in {"none", "early", "late"}}
            \cup {Series(name, "string", u, n, "none", FALSE) :
                u \in WordValues, n \in {0, 1}}
            \cup {Series(name, "category", u, 0, "none", FALSE) :
                u \in {<<"w0">>, <<"w0", "w1", "w2">>}}
            \cup {Series(name, "timedelta64[ns]", <<"1">>, 0, "none", FALSE)}
    IN
    /\ pc = "init"
    /\ series \in SeriesOf("a")
    /\ detected = "none"
    /\ columns = <<>>
    /\ suggestions = <<>>
    /\ df = <<>>
    /\ profile = NoResult
    /\ table = DemoTable
    /\ Idle({"analyzer"})

SpecDetect == InitDetect /\ [][Detect]_vars

InitSuggest ==
    LET ProfileLists ==
            LET ProfileKinds(name) ==
                    {ColumnProfile(name, "float64", "numeric", 0, 0, 3, <<>>),
                     ColumnProfile(name, "datetime64[ns]", "temporal", 0, 0, 3, <<>>),
                     ColumnProfile(name, "object", "categorical", 0, 0, 3, <<>>),
                     ColumnProfile(name, "object", "categorical", 0, 0, 16, <<>>),
                     ColumnProfile(name, "object", "text", 0, 0, 21, <<>>)}
            IN  UNION {{c \in [1..n -> UNION {ProfileKinds(LabelPool[i]) :
                                                 i \in 1..Len(LabelPool)}] :
                           \A i \in 1..n : c[i].name = LabelPool[i]}
                       : n \in 0..MaxProfiles}
    IN
    /\ pc = "init"
    /\ series = Series("a", "int64", <<>>, 0, "none", FALSE)
    /\ detected = "none"
    /\ columns \in ProfileLists
    /\ suggestions = <<>>
    /\ df = <<>>
    /\ profile = NoResult
    /\ table = DemoTable
    /\ Idle({"analyzer"})

SpecSuggest == InitSuggest /\ [][Suggest]_vars

InitAnalyze ==
    LET \* tables with distinct labels: the labels are a window of LabelPool
        Tables ==
            LET \* the Series kinds a table of the analyzer specification is built from
                TableSeries(name) ==
                    {Series(name, "float64", <<"0", "1", "2">>, 0, "none", FALSE),
                     Series(name, "int64", <<"0", "1">>, 1, "none", FALSE),
                     Series(name, "datetime64[ns]", DateSeq, 0, "none", FALSE),
                     Series(name, "object", <<"w0", "w1", "w2">>, 0, "none", FALSE),
                     Series(name, "object", <<"w0">>, 1, "early", FALSE),
                     Series(name, "object", WordSeq, 0, "none", TRUE)}
            IN  UNION {{t \in [1..n -> UNION {TableSeries(LabelPool[i]) :
                                                 i \in 1..Len(LabelPool)}] :
                           \E shift \in 0..(Len(LabelPool) - 1) :
                               \A i \in 1..n :
                                   t[i].name = LabelPool[((i - 1 + shift) % Len(LabelPool)) + 1]}
                       : n \in 0..MaxCols}
    IN
    /\ pc = "init"
    /\ series = Series("a", "int64", <<>>, 0, "none", FALSE)
    /\ detected = "none"
    /\ columns = <<>>
    /\ suggestions = <<>>
    /\ df \in Tables
    /\ profile = NoResult
    /\ table = DemoTable
    /\ Idle({"analyzer"})

SpecAnalyze == InitAnalyze /\ [][Analyze]_vars

\* an engine between two calls
InitEngine ==
    /\ pc = "init"
    /\ table \in RenderTables
    /\ config = DefaultConfig
    /\ backend = "none"
    /\ last_error \in
          \* what _last_error can hold when a call starts: None on a new
          \* engine, or the message an earlier call on this engine left
          {CreateFigure(b, PyNone, t, c, lib, msg).last_error :
              b \in {"plotly", "matplotlib"}, t \in RenderTables, c \in Configs,
              lib \in {"ok", "setup", "dispatch", "styling"}, msg \in {"", "invalid value"}}
    /\ result = "none"
    /\ routine = "none"
    /\ styled = FALSE
    /\ wroteError = FALSE
    /\ open_figures = 0
    /\ Idle({"engine"})

SpecEngine == InitEngine /\ [][CreatePlotlyFigure \/ CreateMatplotlibFigure]_vars

InitUI ==
    /\ pc = "init"
    /\ table \in RenderTables
    /\ Idle({})

SpecUI == InitUI /\ [][RenderChartPreview \/ RenderDashboardGrid \/ ExportMatplotlib]_vars

\* config.to_json()
DumpJson ==
    /\ pc = "init"
    /\ doc = NoDocument
    /\ doc' = [format |-> "json", tree |-> ToJson(cfg), origin |-> "dumped", at |-> <<>>]
    /\ pc' = "written"
    /\ UNCHANGED <<cfg, loaded, avars, evars, uvars, wvars, cvars, tvars>>

\* config.to_yaml()
DumpYaml ==
    /\ pc = "init"
    /\ doc = NoDocument
    /\ doc' = [format |-> "yaml", tree |-> Dump(cfg, "yaml"), origin |-> "dumped", at |-> <<>>]
    /\ pc' = "written"
    /\ UNCHANGED <<cfg, loaded, avars, evars, uvars, wvars, cvars, tvars>>

\* ChartConfig.from_json(text)
LoadJson ==
    /\ pc \in {"init", "written"}
    /\ doc.format = "json"
    /\ loaded' = FromJson(doc.tree)
    /\ pc' = "loaded"
    /\ UNCHANGED <<cfg, doc, avars, evars, uvars, wvars, cvars, tvars>>

\* ChartConfig.from_yaml(text)
LoadYaml ==
    /\ pc \in {"init", "written"}
    /\ doc.format = "yaml"
    /\ loaded' = IF HasPythonTag(doc.tree) THEN Invalid ELSE Validate(doc.tree)
    /\ pc' = "loaded"
    /\ UNCHANGED <<cfg, doc, avars, evars, uvars, wvars, cvars, tvars>>

\* a config in memory, and either nothing written yet or a document handed in
InitSerial ==
    LET \* the documents a user can hand in for c: the plain text of c (enum members
        \* as their strings), as it is, with one unknown key, or with one key left out
        EditedDocuments(c) ==
            LET plain == Dump(c, "json")
                \* the document with an unknown key at the given level
                WithExtra(n, level) ==
                    CASE level = "top" -> WithKey(n, "future_option")
                      [] level = "regression" ->
                            InChild(n, "regression", WithKey(n.items["regression"], "future_option"))
                      [] OTHER ->
                            InChild(n, "annotations",
                                InChild(n.items["annotations"], 1,
                                    WithKey(n.items["annotations"].items[1], "future_option")))
                \* the document with one key left out
                WithOmitted(n, path) ==
                    IF Len(path) = 1 THEN WithoutKey(n, path[1])
                    ELSE IF path[1] = "regression"
                    THEN InChild(n, "regression", WithoutKey(n.items["regression"], path[2]))
                    ELSE InChild(n, "annotations",
                             InChild(n.items["annotations"], 1,
                                 WithoutKey(n.items["annotations"].items[1], path[2])))
            IN  {[format |-> f, tree |-> plain, origin |-> "plain", at |-> <<>>] : f \in {"json", "yaml"}}
                  \cup {[format |-> f, tree |-> WithExtra(plain, l), origin |-> "extra", at |-> <<l>>] :
                           f \in {"json", "yaml"},
                           l \in {e \in {"top", "regression", "annotation"} :
                                     e = "annotation" => c.annotations # <<>>}}
                  \cup {[format |-> f, tree |-> WithOmitted(plain, q), origin |-> "omit", at |-> q] :
                           f \in {"json", "yaml"},
                           q \in {o \in {<<"chart_type">>, <<"x_column">>, <<"title">>,
                                            <<"regression">>, <<"annotations">>,
                                            <<"regression", "type">>, <<"annotations", "type">>,
                                            <<"annotations", "x_end">>} :
                                     (Len(o) = 2 /\ o[1] = "annotations") => c.annotations # <<>>}}
        \* the configs serialized: annotations of every type, of every head style,
        \* with and without x_end
        ConfigTrees ==
            {ConfigTree(ct, x, "Figure", reg, anns) :
                ct \in ChartType,
                x \in {NoColumn, "a"},
                reg \in {DefaultRegression, RegressionConfig(TRUE, "polynomial"),
                         RegressionConfig(TRUE, "logarithmic"), RegressionConfig(FALSE, "exponential")},
                anns \in UNION {[1..n -> {AnnotationConfig(t, "triangle", NoColumn) :
                                               t \in AnnotationType}
                                          \cup {AnnotationConfig("arrow", st, "2.5") :
                                                   st \in ArrowHeadStyle}] : n \in 0..MaxAnn}
                           \cup {AllTypesAnnotations}}
    IN
    /\ pc = "init"
    /\ table = DemoTable
    /\ cfg \in ConfigTrees
    /\ doc \in {NoDocument} \cup EditedDocuments(cfg)
    /\ loaded = "none"
    /\ Idle({"serial"})

SpecSerial == InitSerial /\ [][DumpJson \/ DumpYaml \/ LoadJson \/ LoadYaml]_vars

\* _apply_pending_config(config, df) on the session's widget values
ApplyPending ==
    /\ pc = "init"
    /\ pending_config_load # NoConfig
    /\ LET r == ApplyPendingConfig(widgets, pending_config_load, Range(table.labels))
       IN  /\ widgets' = r.widgets
           /\ applyRaised' = r.raised
    /\ pc' = "applied"
    /\ UNCHANGED <<pending_config_load, session_config, loaded_config, presets,
                   session_ref, avars, evars, uvars, wvars, svars, tvars>>

\* the panel called with a loaded config on a table with columns a, b, c
InitApply ==
    /\ pc = "init"
    /\ table = DemoTable
    /\ widgets \in PriorWidgets
    /\ pending_config_load \in
          {PanelConfig(ct, x, ys, y2s, color, "Saved", "12.0", FALSE, TRUE, anns) :
              ct \in {"line", "scatter"},
              x \in {NoColumn, "a", "zz"},
              ys \in {<<>>, <<"a">>, <<"zz">>, <<"a", "zz">>, <<"a", "b">>},
              y2s \in {<<>>, <<"b">>, <<"zz">>},
              color \in {NoColumn, "c", "zz"},
              anns \in {<<>>, <<"text", "rect">>}}
    /\ session_config = NoConfig
    /\ loaded_config = NoConfig
    /\ applyRaised = FALSE
    /\ presets = PRESETS
    /\ session_ref = "none"
    /\ Idle({"panel"})

SpecApply == InitApply /\ [][ApplyPending]_vars

\* the body of one run of main in single-chart mode (app.py 284-300) with
\* widget values w: the template panel may return a config (for a preset,
\* the PRESETS object itself), which is stored; the configuration panel
\* applies a pending config if one is set and rebuilds the config from the
\* widget values, or raises; main stores the rebuilt config and assigns the
\* annotation panel's list to the stored object
RunSingleChart(w, returned, ref, imported, fails) ==
    LET \* app.py 298-300: st.session_state.config.annotations = annotations, an
        \* assignment to the object the session refers to
        AssignAnnotations(stored, ps, anns) ==
            IF anns = <<>> THEN [ref |-> stored.ref, config |-> stored.config, presets |-> ps]
            ELSE IF stored.ref \in DOMAIN ps
            THEN [ref |-> stored.ref,
                  config |-> [ps[stored.ref] EXCEPT !.annotations = anns],
                  presets |-> [ps EXCEPT ![stored.ref].annotations = anns]]
            ELSE [ref |-> stored.ref, config |-> [stored.config EXCEPT !.annotations = anns],
                  presets |-> ps]
        \* render_chart_config's ChartConfig(...) from the widget values; the
        \* annotations are left at the default
        BuildConfig(values) ==
            PanelConfig(values.chart_type, values.x_column,
                        IF values.chart_type \in {"line", "area"} THEN values.y_columns
                        ELSE <<values.y_column_single>>,
                        IF values.chart_type \in {"line", "scatter", "area"} THEN values.y2_columns ELSE <<>>,
                        values.color_column, values.chart_title, values.marker_size, values.show_legend,
                        values.regression_enabled, <<>>)
    IN
    /\ pc \in {"init", "ran"}
    /\ loaded_config' = IF returned # NoConfig THEN returned ELSE imported
    /\ LET held == IF returned # NoConfig THEN [ref |-> ref, config |-> returned]
                   ELSE [ref |-> session_ref, config |-> session_config]
           r == IF pending_config_load # NoConfig
                THEN ApplyPendingConfig(w, pending_config_load, Range(table.labels))
                ELSE [raised |-> FALSE, widgets |-> w]
       IN  /\ widgets' = r.widgets
           /\ applyRaised' = r.raised
           /\ pending_config_load' = IF r.raised THEN pending_config_load ELSE NoConfig
           /\ IF r.raised \/ fails
              THEN /\ session_config' = held.config
                   /\ session_ref' = held.ref
                   /\ presets' = presets
              ELSE LET stored == StoreBuilt(held, BuildConfig(r.widgets))
                       final == AssignAnnotations(stored, presets, r.widgets.chart_annotations)
                   IN  /\ session_config' = final.config
                       /\ session_ref' = final.ref
                       /\ presets' = final.presets
    /\ pc' = "ran"
    /\ UNCHANGED <<avars, evars, uvars, svars>>

\* the user presses "Appliquer" on a preset: get_preset returns the object
\* held in PRESETS
ApplyPreset ==
    \E n \in DOMAIN presets, fails \in BOOLEAN :
        /\ RunSingleChart(widgets, presets[n], n, NoConfig, fails)
        /\ UNCHANGED <<tvars, wvars>>

\* the user presses "Charger" on a saved template
LoadSavedTemplate ==
    \E c \in LoadableConfigs :
        /\ RunSingleChart(widgets, c, "own", NoConfig, FALSE)
        /\ UNCHANGED <<tvars, wvars>>

\* the user uploads a configuration file in the export panel, which parses
\* it and stores it under st.session_state["loaded_config"]
ImportConfiguration ==
    /\ session_config # NoConfig
    /\ \E c \in LoadableConfigs : RunSingleChart(widgets, NoConfig, "own", c, FALSE)
    /\ UNCHANGED <<tvars, wvars>>

\* the user changes a widget of the panel or edits the annotation list
EditWidgets ==
    \E t \in {"Figure", "Mine"}, x \in {NoColumn, "a"}, anns \in {<<>>, <<"text">>},
       fails \in BOOLEAN :
        /\ RunSingleChart([widgets EXCEPT !.chart_title = t, !.x_column = x,
                                          !.chart_annotations = anns],
                          NoConfig, "own", NoConfig, fails)
        /\ UNCHANGED <<tvars, wvars>>

\* the user presses "Sauvegarder" with a name: the template panel saves the
\* current config and st.rerun() runs the script again
SaveTemplateUI ==
    /\ session_config # NoConfig
    /\ \E n \in {"my_plot", "scatter_simple"} :
          /\ files' = SaveTemplate(files, n, AsTree(session_config))
          /\ saved' = [saved EXCEPT ![n] = AsTree(session_config)]
          /\ lastOp' = [op |-> "save", name |-> n]
    /\ ret' = [kind |-> "bool", value |-> TRUE]
    /\ \E fails \in BOOLEAN : RunSingleChart(widgets, NoConfig, "own", NoConfig, fails)
    /\ UNCHANGED <<writers, wvars>>

\* the user presses "Suppr" on a listed template; st.rerun() runs the script
\* again
DeleteTemplateUI ==
    /\ \E n \in {m \in Range(TemplateNames) : files[m].exists} :
          LET r == DeleteTemplate(files, n)
          IN  /\ files' = r.files
              /\ ret' = r.ret
              /\ saved' = [saved EXCEPT ![n] = NoConfig]
              /\ lastOp' = [op |-> "delete", name |-> n]
    /\ \E fails \in BOOLEAN : RunSingleChart(widgets, NoConfig, "own", NoConfig, fails)
    /\ UNCHANGED <<writers, wvars>>

InitSession ==
    /\ pc = "init"
    /\ table = DemoTable
    /\ widgets \in PriorWidgets
    /\ pending_config_load = NoConfig
    /\ session_config = NoConfig
    /\ loaded_config = NoConfig
    /\ applyRaised = FALSE
    /\ presets = PRESETS
    /\ session_ref = "none"
    /\ Idle({"panel"})

SpecSession ==
    InitSession
      /\ [][ApplyPreset \/ LoadSavedTemplate \/ ImportConfiguration \/ EditWidgets]_vars

\* a session at start-up: a new engine, a table with columns a, b, c, the
\* presets as the module defines them and an empty template directory
InitIdle ==
    /\ pc = "init"
    /\ table = DemoTable
    /\ Idle({})

SpecPresets ==
    InitIdle /\ [][ApplyPreset \/ EditWidgets \/ SaveTemplateUI \/ DeleteTemplateUI]_vars

\* save_template(name, config), one user
Save ==
    /\ pc \in {"init", "store"}
    /\ \E n \in Range(TemplateNames), c \in TemplateConfigs :
          /\ files' = SaveTemplate(files, n, c)
          /\ saved' = [saved EXCEPT ![n] = c]
          /\ lastOp' = [op |-> "save", name |-> n]
          /\ ret' = [kind |-> "bool", value |-> TRUE]
    /\ pc' = "store"
    /\ UNCHANGED <<writers, avars, evars, uvars, wvars, svars, cvars>>

\* load_template(name)
Load ==
    /\ pc \in {"init", "store"}
    /\ \E n \in Range(TemplateNames) :
          /\ ret' = LoadTemplate(files, n)
          /\ lastOp' = [op |-> "load", name |-> n]
    /\ pc' = "store"
    /\ UNCHANGED <<files, saved, writers, avars, evars, uvars, wvars, svars, cvars>>

\* delete_template(name)
Delete ==
    /\ pc \in {"init", "store"}
    /\ \E n \in Range(TemplateNames) :
          LET r == DeleteTemplate(files, n)
          IN  /\ files' = r.files
              /\ ret' = r.ret
              /\ saved' = [saved EXCEPT ![n] = NoConfig]
              /\ lastOp' = [op |-> "delete", name |-> n]
    /\ pc' = "store"
    /\ UNCHANGED <<writers, avars, evars, uvars, wvars, svars, cvars>>

\* list_templates()
List ==
    /\ pc \in {"init", "store"}
    /\ \E globbed \in
          \* the orders in which glob can yield the stored names
          LET stored == {n \in Range(TemplateNames) : files[n].exists}
          IN  {q \in [1..Cardinality(stored) -> stored] :
                  \A i, j \in 1..Len(q) : q[i] = q[j] => i = j} :
          ret' = [kind |-> "list", value |-> ListTemplates(globbed)]
    /\ lastOp' = [op |-> "list", name |-> "none"]
    /\ pc' = "store"
    /\ UNCHANGED <<files, saved, writers, avars, evars, uvars, wvars, svars, cvars>>

SpecStore == InitIdle /\ [][Save \/ Load \/ Delete \/ List]_vars

\* a session enters save_template: open(filepath, 'w')
WriterOpen(w) ==
    /\ writers[w].at = "idle"
    /\ files' = OpenTruncate(files, "my_plot")
    /\ writers' = [writers EXCEPT ![w].at = "open"]
    /\ pc' = "race"
    /\ UNCHANGED <<saved, lastOp, ret, avars, evars, uvars, wvars, svars, cvars>>

\* the session leaves the with block: the buffered text is written and the
\* file closed; save_template returns True
WriterClose(w) ==
    /\ writers[w].at = "open"
    /\ files' = WriteAtStart(files, "my_plot", Blocks(ToJson(writers[w].config)))
    /\ writers' = [writers EXCEPT ![w].at = "returned"]
    /\ pc' = "race"
    /\ UNCHANGED <<saved, lastOp, ret, avars, evars, uvars, wvars, svars, cvars>>

\* a load_template of the shared name, at any moment
ReaderLoad ==
    /\ lastOp = [op |-> "none", name |-> "none"]
    /\ ret' = LoadTemplate(files, "my_plot")
    /\ lastOp' = [op |-> "load", name |-> "my_plot"]
    /\ pc' = "race"
    /\ UNCHANGED <<files, saved, writers, avars, evars, uvars, wvars, svars, cvars>>

\* two sessions about to save their configs under the same name; the file
\* may exist from an earlier save
InitRace ==
    /\ pc = "init"
    /\ table = DemoTable
    /\ \E c \in TemplateConfigs \cup {NoConfig} :
          /\ files = [n \in Range(TemplateNames) |->
                        IF n = "my_plot" /\ c # NoConfig THEN [exists |-> TRUE, data |-> Blocks(ToJson(c))]
                        ELSE [exists |-> FALSE, data |-> <<>>]]
          /\ saved = [n \in Range(TemplateNames) |->
                        IF n = "my_plot" THEN c ELSE NoConfig]
    /\ lastOp = [op |-> "none", name |-> "none"]
    /\ ret = None
    /\ writers \in [{"s1", "s2"} -> {[at |-> "idle", config |-> c] : c \in TemplateConfigs}]
    /\ Idle({"store"})

SpecRace ==
    InitRace /\ [][(\E w \in {"s1", "s2"} : WriterOpen(w) \/ WriterClose(w)) \/ ReaderLoad]_vars

\* VizEngine.create_plotly_figure or create_matplotlib_figure with a config
\* carrying annotations (of every type and colour): they are added once the
\* shared styling is through; an exception leaving the loop would reach the
\* handler of the render method
RenderAnnotated ==
    LET \* the end x coordinate the branch for ann hands to the library: x1 of the
        \* shape (x + width of the patch), or ax of the arrow. An Optional[float] is
        \* <<>> for None and <<v>> for the number v; `ann.x_end if ann.x_end else d`
        \* and `ann.x_end or d` take d for every falsy x_end, None and 0 alike
        EndX(b, ann) ==
            CASE ann.type \in {"rect", "line"} ->
                    IF ann.x_end # <<>> /\ ann.x_end[1] # 0 THEN ann.x_end[1]
                    ELSE ann.x + (IF b = "plotly" THEN 1 ELSE 10)
              [] ann.type = "arrow" ->
                    IF ann.x_end # <<>> THEN ann.x_end[1] ELSE ann.x - 20
              [] OTHER -> ann.x
    IN
    /\ pc = "init"
    /\ \E b \in {"plotly", "matplotlib"}, lib \in {"ok", "styling"},
          c \in {ChartConfig(ct, "a", <<"b">>, <<>>, NoColumn, regression) :
                    ct \in {"scatter", "line", "pie"}, regression \in BOOLEAN},
          anns \in UNION {[1..n -> {a \in [type : AnnotationType,
                                          color : {"#ff0000", "red", "#ff00zz"},
                                          x : {2}, x_end : {<<>>, <<0>>, <<5>>}] :
                                       a.type \in {"text", "vline", "hline"}
                                           => a.x_end = <<>>}] :
                          n \in 0..MaxDrawn} :
          LET base == CreateFigure(b, last_error, table, c, lib, "invalid value")
              added == IF base.result = "figure" /\ anns # <<>>
                       THEN AddAnnotations(b, anns)
                       ELSE [raised |-> FALSE, drawn |-> <<>>]
          IN  /\ config' = c
              /\ annotations' = anns
              /\ backend' = b
              /\ drawn' = added.drawn
              /\ ends' = [i \in 1..Len(added.drawn) |-> EndX(b, added.drawn[i])]
              /\ routine' = base.routine
              /\ styled' = base.styled
              /\ result' = IF added.raised THEN "None" ELSE base.result
              /\ last_error' = IF added.raised
                               THEN PyStr(<<IF b = "plotly" THEN "Erreur de création: "
                                     ELSE "Erreur Matplotlib: ",
                                     "annotation">>)
                               ELSE base.last_error
              /\ wroteError' = (added.raised \/ base.wrote)
              /\ open_figures' = open_figures + base.open
    /\ pc' = "rendered"
    /\ UNCHANGED <<table, avars, uvars, svars, cvars, tvars, frame, data_filters,
                   filtered_df, session_profile, app_mode, export_df, clicks,
                   loader_error, load_ret, uploader, csv>>

SpecAnnotate == InitIdle /\ [][RenderAnnotated]_vars

\* create_plotly_figure or create_matplotlib_figure on a line or area
\* configuration whose columns are in the table: the chart routine, then the
\* shared styling up to the regression call
CreateSeriesFigure ==
    /\ pc = "init"
    /\ \E b \in {"plotly", "matplotlib"},
          ct \in {"line", "area"},
          ys \in UNION {[1..n -> {"a", "b"}] : n \in 0..MaxY},
          y2s \in UNION {[1..n -> {"b", "c"}] : n \in 0..MaxY},
          regression \in BOOLEAN,
          line_style \in {"solid", "dash", "dot"},
          marker_style \in {"circle", "square", "hexagon"} :
          LET \* the configuration with its line and marker styles
              c == ChartConfig(ct, "a", ys, y2s, NoColumn, regression)
                       @@ [line_style |-> line_style, marker_style |-> marker_style]
              r == CreateFigure(b, last_error, table, c, "ok", "")
          IN  /\ Render(b, c, "ok", "")
              /\ figure' = [traces |-> IF r.result # "figure" THEN <<>>
                                    ELSE IF b = "plotly"
                                    THEN ApplyCommonStyling(CreateSeriesChart(c), c)
                                    ELSE MplLine(c),
                         valid |-> 0, fit |-> "none"]
    /\ UNCHANGED <<table, avars, uiPath, message, reached, script, xvars>>

\* _add_regression_line called on a figure the interactive backend returned
CallAddRegressionLine ==
    /\ pc = "rendered"
    /\ backend = "plotly"
    /\ result = "figure"
    /\ \E valid \in 0..MaxValid, fit \in {"ok", "raise"} :
          figure' = [traces |-> AddRegressionLine(table, figure.traces, config, valid, fit),
                  valid |-> valid, fit |-> fit]
    /\ pc' = "regressed"
    /\ UNCHANGED <<table, avars, evars, uiPath, message, reached, script, xvars>>

SpecTraces == InitIdle /\ [][CreateSeriesFigure \/ CallAddRegressionLine]_vars

\* CodeGenerator.generate_plotly_script
GeneratePlotlyScript ==
    /\ pc = "init"
    /\ \E c \in Configs, include_imports \in BOOLEAN :
          /\ config' = c
          /\ script' = [backend |-> "plotly", body |-> PlotlyTemplate(c, include_imports)]
    /\ pc' = "generated"
    /\ UNCHANGED <<table, backend, last_error, result, routine, styled, wroteError,
                   open_figures, avars, uiPath, message, reached, figure, xvars>>

\* CodeGenerator.generate_matplotlib_script
GenerateMatplotlibScript ==
    /\ pc = "init"
    /\ \E c \in Configs, include_imports \in BOOLEAN :
          /\ config' = c
          /\ script' = [backend |-> "matplotlib",
                        body |-> MatplotlibTemplate(c, include_imports)]
    /\ pc' = "generated"
    /\ UNCHANGED <<table, backend, last_error, result, routine, styled, wroteError,
                   open_figures, avars, uiPath, message, reached, figure, xvars>>

SpecCodegen == InitIdle /\ [][GeneratePlotlyScript \/ GenerateMatplotlibScript]_vars

\* one run of main with a table loaded, the stored filters being `filters`
\* when render_data_filter starts its widget loop: the explorer analyzes
\* st.session_state.df and the result is stored as the session's profile;
\* render_data_filter returns the filtered table, or raises; the mode's panel
\* receives the filtered table and the session's profile, and the export
\* panel receives st.session_state.df (app.py 318-333) when it is shown
RunMain(filters) ==
    LET \* DataAnalyzer().analyze(df) as render_data_explorer calls it, on the table
        \* with the column "a"
        FrameProfile(rows) ==
            [AnalyzeResult(<<Series("a", "int64", Unique(rows), 0, "none", FALSE),
                             Series("t", "object",
                                    [i \in 1..Len(Unique(rows)) |-> Label(Unique(rows)[i]).name],
                                    0, "none", FALSE)>>)
                EXCEPT !.row_count = Len(rows)]
        rendered == RenderFilterWidgets(filters, 1)
    IN  /\ clicks < MaxClicks
        /\ clicks' = clicks + 1
        /\ data_filters' = rendered.filters
        /\ session_profile' = FrameProfile(frame)
        /\ IF rendered.raised
           THEN /\ pc' = "raised"
                /\ filtered_df' = <<>>
                /\ app_mode' = app_mode
                /\ export_df' = [called |-> FALSE, df |-> <<>>]
           ELSE /\ pc' = "main"
                /\ filtered_df' = ApplyFilters(frame, rendered.filters)
                /\ \E mode \in {"Graphique unique", "Dashboard"}, fig \in BOOLEAN :
                      /\ app_mode' = mode
                      /\ export_df' = IF mode = "Dashboard" \/ fig
                                      THEN [called |-> TRUE, df |-> frame]
                                      ELSE [called |-> FALSE, df |-> <<>>]
        /\ UNCHANGED <<frame, annotations, drawn, ends, avars, evars, uvars, svars, cvars, tvars,
                       loader_error, load_ret, uploader, csv>>

\* "+ Filtre": a filter on the first column is appended and the script reruns
AddFilter ==
    /\ Len(data_filters) < MaxFilters
    /\ RunMain(Append(data_filters, [column |-> "a", operator |-> "equals", value |-> <<>>]))

\* the user changes one widget of filter i, which the previous run rendered
EditFilter ==
    \E i \in 1..Len(data_filters) :
        LET held == RenderFilterWidgets(data_filters, 1)
            f == data_filters[i]
        IN  \/ /\ ~held.raised \/ held.at >= i
               /\ \E column \in {"a", "t"} \ {f.column} :
                     RunMain([data_filters EXCEPT ![i].column = column])
            \/ /\ ~held.raised \/ held.at > i
               /\ \E operator \in {"equals", "not_equals", "greater", "less", "gte", "lte",
                                   "contains", "startswith", "endswith"} :
                     /\ (operator \in {"greater", "less", "gte", "lte"}) => f.column = "a"
                     /\ (operator \in {"contains", "startswith", "endswith"}) => f.column = "t"
                     /\ RunMain([data_filters EXCEPT ![i].operator = operator])
            \/ /\ ~held.raised \/ held.at > i
               /\ \E value \in IF f.column = "a" THEN {<<d>> : d \in Range(CellValues)}
                               ELSE {<<>>, <<"b">>, <<"(">>} :
                     RunMain([data_filters EXCEPT ![i].value = value])

\* the "x" button of filter i, which the previous run rendered: the filter
\* is popped and the script reruns; the widgets of the rerun, keyed by
\* position, either show the stored filters or keep the values they held
RemoveFilter ==
    \E i \in 1..Len(data_filters) :
        LET held == RenderFilterWidgets(data_filters, 1)
            n == Len(data_filters)
        IN  /\ ~held.raised
            /\ \E at \in {i, n} :
                  RunMain(SubSeq(data_filters, 1, at - 1) \o SubSeq(data_filters, at + 1, n))

\* a session in which a table with the columns a and t, at least one row,
\* was loaded
InitFilter ==
    /\ pc = "init"
    /\ table = DemoTable
    /\ annotations = <<>>
    /\ drawn = <<>>
    /\ ends = <<>>
    /\ frame \in UNION {[1..n -> Range(CellValues)] : n \in 1..MaxRows}
    /\ data_filters = <<>>
    /\ filtered_df = <<>>
    /\ session_profile = NoResult
    /\ app_mode = "none"
    /\ export_df = [called |-> FALSE, df |-> <<>>]
    /\ clicks = 0
    /\ loader_error = PyNone
    /\ load_ret = [isNone |-> TRUE, rows |-> <<>>]
    /\ uploader = [loads |-> 0, message |-> "none", called |-> FALSE,
                   file |-> [suffix |-> "", size |-> 0, content |-> "empty", rows |-> <<>>],
                   ret |-> [isNone |-> TRUE, rows |-> <<>>]]
    /\ csv = [sample |-> <<>>, delimiter |-> "none"]
    /\ Idle({"later"})

SpecFilter == InitFilter /\ [][AddFilter \/ EditFilter \/ RemoveFilter]_vars

\* loader.load(file) on a loader that is kept between calls
CallLoad ==
    /\ uploader.loads < MaxLoads
    /\ \E file \in Files :
          LET out == DataLoaderLoad(loader_error, file)
          IN  /\ loader_error' = out.last_error
              /\ load_ret' = out.ret
              /\ uploader' = [loads |-> uploader.loads + 1, file |-> file,
                              message |-> "none", ret |-> out.ret, called |-> TRUE]
    /\ pc' = "load"
    /\ UNCHANGED <<avars, evars, uvars, svars, cvars, tvars, annotations, drawn, ends, frame,
                   data_filters, filtered_df, session_profile, app_mode, export_df, clicks,
                   csv>>

\* one run of main's sidebar with a file in the uploader (app.py 246-250):
\* render_file_uploader checks the size, loads the file with a new
\* DataLoader and shows the outcome; a table it returns replaces
\* st.session_state.df
RenderFileUploader ==
    /\ uploader.loads < MaxLoads
    /\ \E file \in Files :
          LET out == DataLoaderLoad(PyNone, file)
              oversize == file.size > 100 * (1024 * 1024)
              returned == IF oversize THEN [isNone |-> TRUE, rows |-> <<>>] ELSE out.ret
          IN  /\ loader_error' = IF oversize THEN loader_error ELSE out.last_error
              /\ load_ret' = IF oversize THEN load_ret ELSE out.ret
              /\ uploader' = [loads |-> uploader.loads + 1, file |-> file,
                              message |-> IF oversize
                                          THEN "Le fichier dépasse la limite de 100 Mo"
                                          ELSE IF out.ret.isNone THEN out.last_error.text[1]
                                          ELSE "lignes × colonnes",
                              ret |-> returned, called |-> ~oversize]
              /\ frame' = IF returned.isNone THEN frame ELSE returned.rows
    /\ pc' = "upload"
    /\ UNCHANGED <<avars, evars, uvars, svars, cvars, tvars, annotations, drawn, ends,
                   data_filters, filtered_df, session_profile, app_mode, export_df, clicks,
                   csv>>

SpecUpload == InitFilter /\ [][CallLoad \/ RenderFileUploader]_vars

\* _load_csv reads a sample of the file and detects its delimiter
LoadCsv ==
    /\ pc = "init"
    /\ \E sample \in UNION {[1..n -> {",", ";", "\t", "|", "x"}] : n \in 0..MaxSample} :
          csv' = [sample |-> sample, delimiter |-> DetectDelimiter(sample)]
    /\ pc' = "csv"
    /\ UNCHANGED <<avars, evars, uvars, svars, cvars, tvars, annotations, drawn, ends, frame,
                   data_filters, filtered_df, session_profile, app_mode, export_df, clicks,
                   loader_error, load_ret, uploader>>

SpecDelimiter == InitIdle /\ [][LoadCsv]_vars

----------------------------------------------------------------------------
(* Claims *)

\* C1: create_plotly_figure and create_matplotlib_figure never propagate an
\* exception; each call clears last_error first and returns either a figure
\* with last_error None or None with last_error a non-empty string, so the
\* result is None exactly when last_error is set, and last_error is the
\* message of the most recent call only.
C1_ErrorOrFigure ==
    pc = "rendered" =>
        /\ result \in {"figure", "None"}
        /\ result = "figure" => last_error.isNone
        /\ result = "None" =>
              /\ ~last_error.isNone
              /\ \E i \in 1..Len(last_error.text) : last_error.text[i] # ""
        /\ ~last_error.isNone => wroteError

C1_Witness ==
    /\ pc = "rendered"
    /\ result = "None"
    /\ ~last_error.isNone
    /\ last_error.text[2] = ""
    /\ wroteError

\* C2: rendering a heatmap config with fewer than 2 y_columns (with or
\* without the correlation sentinel) returns None together with a non-empty
\* error string.
C2_HeatmapNeedsTwoColumns ==
    (pc = "rendered" /\ config.chart_type = "heatmap" /\ Len(config.y_columns) < 2) =>
        /\ result = "None"
        /\ ~last_error.isNone
        /\ \E i \in 1..Len(last_error.text) : last_error.text[i] # ""

\* C3: on every UI path a backend's chart construction is reached only with
\* a config that satisfies the validation precondition (heatmap: at least 2
\* y_columns; histogram: x_column set; otherwise x_column set or y_columns
\* non-empty); when it fails the path shows the configure-first message and
\* yields None.
C3_ValidatedBeforeDispatch ==
    pc = "ui" =>
        LET pre == CASE config.chart_type = "heatmap" -> Len(config.y_columns) >= 2
                     [] config.chart_type = "histogram" -> config.x_column # "<None>"
                     [] OTHER -> config.x_column # "<None>" \/ config.y_columns # <<>>
        IN  /\ reached # {} => pre
            /\ ~pre => (message = "configure" /\ result = "None")

\* C4: for each of the 20 chart types and each backend, render dispatches to
\* a chart-construction routine for that type and then applies the shared
\* post-processing; no chart type reaches the unsupported-type branch.
C4_EveryTypeDispatched ==
    (pc = "rendered" /\ routine # "none") =>
        /\ routine # "unsupported"
        /\ result = "figure" => styled

\* C11: ChartConfig.from_json(config.to_json()) succeeds and equals config
\* field for field, for every config, including one with an annotation of
\* each of the 6 types, Optional fields at None and all enum-valued fields.
C11_JsonRoundTrip ==
    (pc = "loaded" /\ doc.format = "json" /\ doc.origin = "dumped") =>
        (loaded.ok /\ loaded.value = cfg)

C11_Witness ==
    /\ pc = "loaded"
    /\ doc.format = "json"
    /\ doc.origin = "dumped"
    /\ cfg.annotations = AllTypesAnnotations
    /\ cfg.x_column = NoColumn
    /\ cfg.chart_type = "parallel_coords"
    /\ loaded.ok

\* C12: ChartConfig.from_yaml(config.to_yaml()) succeeds and equals config
\* field for field, enum-valued fields included, so that repeated
\* JSON/YAML round trips change nothing.
C12_YamlRoundTrip ==
    (pc = "loaded" /\ doc.format = "yaml" /\ doc.origin = "dumped") =>
        (loaded.ok /\ loaded.value = cfg)

\* C13: deserializing a document with an unknown extra key at any nesting
\* level succeeds and gives the same config as without the key, and a
\* document that leaves a key out gives the declared default for it, in
\* JSON and in YAML alike.
C13_IgnoreUnknownDefaultMissing ==
    LET path == doc.at
        expected ==
            IF Len(path) = 1
            THEN [cfg EXCEPT ![path[1]] = DefaultTree[path[1]]]
            ELSE IF path[1] = "regression"
            THEN [cfg EXCEPT !.regression[path[2]] = DefaultRegression[path[2]]]
            ELSE [cfg EXCEPT !.annotations[1][path[2]] = DefaultAnnotation[path[2]]]
    IN  pc = "loaded" =>
            /\ doc.origin = "extra" => (loaded.ok /\ loaded.value = cfg)
            /\ doc.origin = "omit" => (loaded.ok /\ loaded.value = expected)

C13_Witness ==
    /\ pc = "loaded"
    /\ doc.format = "yaml"
    /\ doc.origin = "extra"
    /\ doc.at = <<"annotation">>
    /\ loaded.ok
    /\ cfg.chart_type = "line"

\* C14: applying a loaded config to a table that lacks exactly one of the
\* columns it references completes without error, leaves that one reference
\* dropped or nulled (not at the value held before), and applies every other
\* field of the loaded config unchanged.
C14_MissingColumnDropped ==
    LET c == pending_config_load
        cols == Range(table.labels)
        missing ==
            (IF c.x_column # NoColumn /\ c.x_column \notin cols
             THEN {<<"x_column", c.x_column>>} ELSE {})
              \cup {<<"y_columns", c.y_columns[i]>> :
                       i \in {k \in 1..Len(c.y_columns) : c.y_columns[k] \notin cols}}
              \cup {<<"y2_columns", c.y2_columns[i]>> :
                       i \in {k \in 1..Len(c.y2_columns) : c.y2_columns[k] \notin cols}}
              \cup (IF c.color_column # NoColumn /\ c.color_column \notin cols
                    THEN {<<"color_column", c.color_column>>} ELSE {})
    IN  (pc = "applied" /\ Cardinality(missing) = 1) =>
            /\ ~applyRaised
            /\ widgets.x_column = (IF c.x_column \in cols THEN c.x_column ELSE "<None>")
            /\ widgets.y_columns = ValidColumns(c.y_columns, cols)
            /\ widgets.y2_columns = ValidColumns(c.y2_columns, cols)
            /\ widgets.color_column =
                  (IF c.color_column \in cols THEN c.color_column ELSE "<None>")
            /\ widgets.chart_type = c.chart_type
            /\ widgets.chart_title = c.title
            /\ widgets.marker_size = c.marker_size
            /\ widgets.show_legend = c.legend_show
            /\ widgets.regression_enabled = c.regression_enabled
            /\ widgets.chart_annotations = c.annotations

\* C15: after the user loads a saved template, applies a preset or imports
\* a configuration, the config stored in the session and used by the next
\* preview carries the loaded configuration's field values, not only the
\* widget values that existed before the load.
C15_LoadedConfigUsed ==
    (pc = "ran" /\ loaded_config.chart_type # "<None>") =>
        /\ session_config.title = loaded_config.title
        /\ session_config.marker_size = loaded_config.marker_size
        /\ session_config.chart_type = loaded_config.chart_type

\* C16: for one user, load_template(n) returns the config most recently
\* saved under n if n is saved and not deleted since, else None; a re-save
\* overwrites; delete_template(n) returns True exactly when n was stored and
\* afterwards n is gone; list_templates returns exactly the stored names in
\* sorted order.
C16_TemplateStore ==
    [][pc' = "store" =>
         CASE lastOp'.op = "load" ->
                 IF saved[lastOp'.name].chart_type = "<None>"
                 THEN ret'.kind = "none"
                 ELSE ret'.kind = "config" /\ ret'.value = saved[lastOp'.name]
           [] lastOp'.op = "delete" ->
                 /\ ret'.kind = "bool"
                 /\ ret'.value = (saved[lastOp'.name].chart_type # "<None>")
                 /\ ~files'[lastOp'.name].exists
           [] lastOp'.op = "list" ->
                 /\ ret'.kind = "list"
                 /\ {ret'.value[i] : i \in 1..Len(ret'.value)} =
                       {n \in DOMAIN saved : saved[n].chart_type # "<None>"}
                 /\ \A i, j \in 1..Len(ret'.value) :
                       i < j => \E a, b \in 1..Len(TemplateNames) :
                                   /\ a < b
                                   /\ TemplateNames[a] = ret'.value[i]
                                   /\ TemplateNames[b] = ret'.value[j]
           [] OTHER -> ret'.kind = "bool" /\ ret'.value]_vars

C16_Witness ==
    /\ pc = "store"
    /\ lastOp.op = "list"
    /\ ret.kind = "list"
    /\ Len(ret.value) = 3
    /\ saved["my_plot"].chart_type = "line"

\* C17: when two sessions save concurrently under the same name, once both
\* calls have returned the file holds exactly one writer's complete
\* configuration, and a load that overlaps or follows them returns None or
\* a configuration some writer saved in full, never a mixture.
C17_LastWriterWins ==
    pc = "race" =>
        /\ (\A w \in DOMAIN writers : writers[w].at = "returned") =>
              \E w \in DOMAIN writers :
                 files["my_plot"].data =
                    [i \in 1..(1 + Len(writers[w].config.annotations)) |->
                        [of |-> Dump(writers[w].config, "json"), part |-> i]]
        /\ (lastOp.op = "load" /\ ret.kind = "config") =>
              \/ \E w \in DOMAIN writers : ret.value = writers[w].config
              \/ ret.value = saved["my_plot"]

\* C18: after any sequence of UI operations (applying a preset, building
\* configs from widgets, editing annotations, saving or deleting templates)
\* each of the 4 built-in presets has the field values it had at start-up,
\* list_presets is unchanged, and a preset name is in the template
\* directory only if the user saved a template under that name.
C18_PresetsImmutable ==
    /\ DOMAIN presets =
          {"scatter_simple", "line_clean", "bar_grouped", "publication_nature"}
    /\ presets["scatter_simple"].title = "Nuage de points"
    /\ presets["scatter_simple"].marker_size = "10.0"
    /\ presets["line_clean"].title = "Courbe"
    /\ presets["line_clean"].marker_size = "6.0"
    /\ presets["bar_grouped"].marker_size = "8.0"
    /\ presets["publication_nature"].marker_size = "4.0"
    /\ \A n \in DOMAIN presets :
          /\ presets[n].annotations = <<>>
          /\ presets[n].chart_type = "scatter"
          /\ presets[n].x_column = "<None>"
          /\ (n \in DOMAIN files /\ files[n].exists) => saved[n].chart_type # "<None>"

C18_Witness ==
    /\ pc = "ran"
    /\ loaded_config # NoConfig
    /\ loaded_config.title = "Nuage de points"
    /\ widgets.chart_annotations # <<>>
    /\ session_config.annotations # <<>>
    /\ files["scatter_simple"].exists

\* C19: when a render call's base figure is complete, annotations whose
\* drawing raises (such as a rect with a malformed colour) are skipped one
\* by one: the call returns the figure, does not record an error, and the
\* figure carries exactly the other annotations in their order.
C19_FailingAnnotationSkipped ==
    (pc = "rendered" /\ styled) =>
        /\ result = "figure"
        /\ last_error = PyNone
        /\ ~wroteError
        /\ Len(drawn) <= Len(annotations)
        /\ \E keep \in SUBSET (1..Len(annotations)) :
              /\ \A i \in 1..Len(annotations) :
                    i \in keep <=>
                        /\ annotations[i].color # "#ff00zz"
                        /\ ~(backend = "plotly" /\ annotations[i].type = "rect"
                             /\ annotations[i].color = "red")
              /\ Len(drawn) = Cardinality(keep)
              /\ \A i \in keep :
                    drawn[Cardinality({j \in keep : j <= i})] = annotations[i]

C19_Witness ==
    /\ pc = "rendered"
    /\ styled
    /\ Len(annotations) = 2
    /\ annotations[1] = [type |-> "rect", color |-> "#ff00zz", x |-> 2, x_end |-> <<5>>]
    /\ annotations[2].color = "#ff0000"
    /\ drawn = <<annotations[2]>>
    /\ result = "figure"

\* C20: the DataProfile handed to the configuration panel and to the
\* dashboard is the analysis of the filtered table: its row count and its
\* column profiles are those of the rows the filters keep.
C20_ProfileOfFilteredTable ==
    pc = "main" =>
        /\ session_profile.row_count = Len(filtered_df)
        /\ session_profile.columns[1].unique_count =
              Cardinality({filtered_df[i] : i \in 1..Len(filtered_df)})

\* C5: for every table, analyze returns a profile with exactly one
\* ColumnProfile per input column, in input order and carrying the column's
\* name, column_count equal to the number of columns, and every column_type
\* one of the six defined values.
C5_OneProfilePerColumn ==
    pc = "analyzed" =>
        /\ profile.kind = "profile"
        /\ Len(profile.columns) = Len(df)
        /\ profile.column_count = Len(df)
        /\ \A i \in 1..Len(df) :
              /\ profile.columns[i].name = df[i].name
              /\ profile.columns[i].column_type \in
                    {"numeric", "categorical", "temporal", "text", "boolean", "unknown"}

\* C6: when the per-column analysis raises for a column, analyze still
\* returns a DataProfile; that column has type unknown, unique_count 0,
\* null_percentage 0 and no sample values, every other column has the profile
\* it has without the failure, and analyze raises for no table.
C6_FailingColumnDegrades ==
    pc = "analyzed" =>
        /\ profile.kind = "profile"
        /\ Len(profile.columns) = Len(df)
        /\ \A i \in 1..Len(df) :
              IF df[i].fault \/ df[i].name \in IntLabels
              THEN /\ profile.columns[i].column_type = "unknown"
                   /\ profile.columns[i].unique_count = 0
                   /\ profile.columns[i].null_percentage = 0
                   /\ profile.columns[i].sample_values = <<>>
              ELSE profile.columns[i] = AnalyzeColumn(df[i]).profile

\* C7: _detect_column_type returns boolean whenever (the dtype is boolean or
\* every non-null value lies in {True, False, 0, 1}) and unique_count <= 2;
\* the rule comes before the temporal, numeric and categorical rules, so a
\* column of 0/1 integers is boolean, not numeric.
C7_BooleanRuleFirst ==
    pc = "detected" =>
        ((/\ \/ series.dtype = "bool"
             \/ /\ series.nested = "none"
                /\ \A i \in 1..Len(series.uniq) :
                      series.uniq[i] \in {"True", "False", "0", "1"}
          /\ Len(series.uniq) <= 2)
         => detected = "boolean")

C7_Witness ==
    /\ pc = "detected"
    /\ series.dtype = "int64"
    /\ series.uniq = <<"0", "1">>
    /\ detected = "boolean"

\* C8: a column of numeric dtype is never categorical and never text,
\* whatever its unique_count; the threshold of 20 decides only between
\* categorical (unique_count <= 20) and text (unique_count > 20), and only
\* for string-like columns.
C8_NumericNeverCategorical ==
    pc = "detected" =>
        /\ series.dtype \in {"int64", "float64", "bool"}
              => detected \notin {"categorical", "text"}
        /\ detected \in {"categorical", "text"}
              => /\ series.dtype \in {"object", "string"}
                 /\ detected = "categorical" <=>
                       (IF series.nested = "none" THEN Len(series.uniq) ELSE 0) <= 20

C8_Witness ==
    /\ pc = "detected"
    /\ series.dtype = "int64"
    /\ Len(series.uniq) = 20
    /\ detected = "numeric"

\* C9: the suggested chart types of a DataProfile are at most 5 names and
\* contain each chart type at most once.
C9_SuggestedTypesDistinct ==
    (pc = "analyzed" /\ profile.kind = "profile") =>
        /\ Len(profile.suggested_charts) <= 5
        /\ \A i, j \in 1..Len(profile.suggested_charts) :
              profile.suggested_charts[i] = profile.suggested_charts[j] => i = j

\* C10: the list returned by _suggest_charts is in non-increasing score
\* order (line 95, scatter 90, bar 85, box 75, histogram 70, heatmap 65),
\* whatever the order of generation; with a temporal and a numeric column
\* the first suggestion is line.
C10_SortedByScore ==
    pc = "suggested" =>
        /\ \A i, j \in 1..Len(suggestions) :
              i < j => suggestions[i].score >= suggestions[j].score
        /\ \A i \in 1..Len(suggestions) :
              suggestions[i].score =
                  CASE suggestions[i].chart_type = "line" -> 95
                    [] suggestions[i].chart_type = "scatter" -> 90
                    [] suggestions[i].chart_type = "bar" -> 85
                    [] suggestions[i].chart_type = "box" -> 75
                    [] suggestions[i].chart_type = "histogram" -> 70
                    [] suggestions[i].chart_type = "heatmap" -> 65
                    [] OTHER -> 0 - 1
        /\ ((\E i \in 1..Len(columns) : columns[i].column_type = "temporal")
            /\ (\E i \in 1..Len(columns) : columns[i].column_type = "numeric"))
              => (suggestions # <<>> /\ suggestions[1].chart_type = "line")

C10_Witness ==
    /\ pc = "suggested"
    /\ Len(suggestions) >= 4
    /\ suggestions[1].chart_type = "line"
    /\ \E i, j \in 1..Len(suggestions) :
          /\ i < j
          /\ suggestions[i].chart_type = "box"
          /\ suggestions[j].chart_type = "histogram"

\* C21: the table handed to the export panel, from which the CSV and Excel
\* dumps and the publication-backend image are produced, is the filtered
\* table the preview of the same run was rendered from.
C21_ExportOfFilteredTable ==
    (pc = "main" /\ export_df.called) => export_df.df = filtered_df

\* C30: after any sequence of add-filter, edit-filter and remove-filter
\* operations render_data_filter returns a table: the rows of the input
\* table, in their order, that every stored filter with a non-empty value and
\* an evaluation that does not raise keeps; with no such filter it is the
\* input table.
C30_FilteredRowsOfStoredFilters ==
    clicks > 0 =>
        /\ pc = "main"
        /\ filtered_df =
              SelectSeq(frame,
                        LAMBDA r : \A i \in 1..Len(data_filters) :
                            LET f == data_filters[i]
                            IN  (f.value # <<>> /\ ~FilterRaises(f))
                                    => SelectRows(<<r>>, f) = <<r>>)

\* C22: an upload larger than 100 MB is rejected before DataLoader.load is
\* called; an upload that is oversize, of unrecognized format or fails to
\* parse yields None with an error message and leaves the session's table as
\* it was; load returns None exactly when last_error is set.
C22_RejectedUploadKeepsTable ==
    [][LET file == uploader'.file
           rejected ==
               \/ file.size > 104857600
               \/ file.suffix = ".txt"
               \/ file.content = "empty"
               \/ file.content = "scalar" /\ file.suffix \notin {".csv", ".CSV"}
       IN  /\ pc' = "upload" =>
                /\ file.size > 104857600 => ~uploader'.called /\ load_ret' = load_ret
                /\ rejected =>
                      /\ uploader'.ret.isNone
                      /\ uploader'.message \notin {"none", "lignes × colonnes"}
                      /\ frame' = frame
           /\ pc' = "load" =>
                /\ load_ret'.isNone <=> loader_error' # PyNone
                /\ rejected <=> load_ret'.isNone \/ file.size > 104857600]_vars

\* an oversize upload was rejected without a call of load, after an upload
\* that failed to parse, and the session's table is still there
C22_Witness ==
    /\ pc = "upload"
    /\ uploader.loads = 2
    /\ uploader.file.size = 104857601
    /\ ~uploader.called
    /\ uploader.ret.isNone
    /\ uploader.message = "Le fichier dépasse la limite de 100 Mo"
    /\ loader_error = PyStr(<<"Erreur de chargement: ", "No columns to parse from file">>)
    /\ frame = <<"2", "1">>

\* C27: _detect_delimiter returns, among comma, semicolon, tab and pipe, a
\* candidate with the highest count in the sample; of several candidates with
\* the highest non-zero count the earliest in that order; a comma when no
\* candidate occurs.
C27_DelimiterOfHighestCount ==
    pc = "csv" =>
        LET order == <<",", ";", "\t", "|">>
            n(d) == Cardinality({i \in 1..Len(csv.sample) : csv.sample[i] = d})
        IN  \E k \in 1..4 :
               /\ csv.delimiter = order[k]
               /\ \A j \in 1..4 : n(order[j]) <= n(order[k])
               /\ \A j \in 1..(k - 1) : n(order[j]) < n(order[k])

\* in the sample "|", tab, "x" the pipe and the tab tie and the tab, earlier
\* in the order, is returned
C27_Witness ==
    /\ pc = "csv"
    /\ csv.sample = <<"|", "\t", "x">>
    /\ csv.delimiter = "\t"

\* C28: every figure create_matplotlib_figure creates is returned to the
\* caller or closed before the call returns: after a call that returned None
\* pyplot holds no figure open that the call created.
C28_NoFigureLeftOpen ==
    (pc = "rendered" /\ backend = "matplotlib" /\ result = "None") => open_figures = 0

\* C29: a line or rect annotation whose x_end is set is drawn with that
\* value as its end coordinate, for every number including 0; the default
\* end (x + 1 in the interactive backend, x + 10 in the publication backend)
\* is used only when the field is None, as for an arrow.
C29_ExplicitEndHonoured ==
    pc = "rendered" =>
        \A i \in 1..Len(drawn) :
            drawn[i].type \in {"line", "rect"} =>
                ends[i] = IF drawn[i].x_end # <<>> THEN drawn[i].x_end[1]
                          ELSE drawn[i].x + (IF backend = "plotly" THEN 1 ELSE 10)

\* C24: in the figure create_plotly_figure returns for a line or area chart
\* with y2 columns, every y_columns trace is on the primary Y axis, every
\* y2_columns trace is on the secondary Y axis, and every y2_columns trace is
\* still dashed once the shared styling has run, whatever config.line_style.
C24_SecondaryTracesDashed ==
    (/\ pc = "rendered"
     /\ backend = "plotly"
     /\ result = "figure"
     /\ config.chart_type \in {"line", "area"}
     /\ config.y2_columns # <<>>)
        => /\ Len(figure.traces) = Len(config.y_columns) + Len(config.y2_columns)
           /\ \A i \in 1..Len(figure.traces) :
                 IF i <= Len(config.y_columns)
                 THEN figure.traces[i].axis = "y"
                 ELSE /\ figure.traces[i].axis = "y2"
                      /\ figure.traces[i].dash = "dash"

\* C25: in the figure returned for a line chart with several traces, the
\* trace at position i (y_columns, then y2_columns) carries symbol number
\* i mod palette length of the backend's palette, for every split of the
\* traces between y_columns and y2_columns, so no two of the first 8 traces
\* carry the same symbol.
C25_SymbolByPosition ==
    (/\ pc = "rendered"
     /\ result = "figure"
     /\ config.chart_type = "line"
     /\ Len(figure.traces) >= 2)
        => LET palette == IF backend = "plotly"
                          THEN <<"circle", "square", "diamond", "triangle-up",
                                 "triangle-down", "star", "cross", "x">>
                          ELSE <<"o", "s", "D", "^", "v", "*", "+", "x", "p", "h">>
           IN  /\ \A i \in 1..Len(figure.traces) :
                     figure.traces[i].symbol = palette[((i - 1) % Len(palette)) + 1]
               /\ \A i, j \in 1..Len(figure.traces) :
                     (i < j /\ j <= 8) => figure.traces[i].symbol # figure.traces[j].symbol

\* C26: with fewer than 2 valid rows _add_regression_line returns the figure
\* with the traces it had and raises nothing, a failure inside it leaves the
\* traces as they were, and the regression step does not turn a render into
\* an error.
C26_RegressionNeverFailsRender ==
    [][/\ (/\ pc' = "regressed"
           /\ (figure'.valid < 2 \/ figure'.fit = "raise"))
              => figure'.traces = figure.traces
       /\ (/\ pc' = "rendered"
           /\ backend' = "plotly"
           /\ config'.regression_enabled)
              => (result' = "figure" /\ last_error' = PyNone)]_vars

\* C23: for every chart type the interactive renderer dispatches, the script
\* generate_plotly_script emits assigns fig before the shared styling lines
\* use it, and no other type has a branch; for every chart type the
\* publication renderer supports the script of generate_matplotlib_script
\* has a plotting branch, and no other type has one.
C23_TemplateBranchPerRenderedType ==
    pc = "generated" =>
        LET body == script.body
            styling == CHOOSE i \in 1..Len(body) :
                           body[i].call \in {"fig.update_layout", "ax.set_title"}
            start == CHOOSE i \in 1..Len(body) : body[i].call = "pd.read_csv"
        IN  IF script.backend = "plotly"
            THEN (PlotlyRoutine(config.chart_type) # "unsupported")
                     <=> (\E i \in (start + 1)..(styling - 1) : body[i].assigns = "fig")
            ELSE (MplRoutine(config.chart_type) # "unsupported")
                     <=> (styling - start > 2)

====
